---- MODULE Spec2Model ----
(***************************************************************************)
(* Track resolution pipeline of spotify-playlist-downloader:               *)
(*   src/src/resolver.py          AntigravityResolver (scorer and ranker)  *)
(*   src/src/ytmusic_resolver.py  YTMusicResolver (search + rank)          *)
(*   src/src/isrc_resolver.py     AntigravityISRCResolver (ISRC-first)     *)
(*   src/src/smart_resolver.py    SmartResolver (ISRC-first + fallback)    *)
(*                                                                         *)
(* Strings are sequences of one-character strings, so that substring       *)
(* tests, regular-expression substitutions, lower-casing and tokenising    *)
(* are computed character by character as the Python code computes them.   *)
(* Similarities are exact rationals in units of 1/SimOne; a score of p     *)
(* points is p * SimOne, and a confidence of 1.00 is 100 points.           *)
(***************************************************************************)
EXTENDS Integers, Sequences, FiniteSets, TLC

\* ------------------------------------------------------------------------
\* Characters and strings
\* ------------------------------------------------------------------------

UpperChars == <<"A","B","C","D","E","F","G","H","I","J","K","L","M",
                "N","O","P","Q","R","S","T","U","V","W","X","Y","Z">>

LowerChars == <<"a","b","c","d","e","f","g","h","i","j","k","l","m",
                "n","o","p","q","r","s","t","u","v","w","x","y","z">>

DigitChars == {"0","1","2","3","4","5","6","7","8","9"}

\* every character a string of the model is made of
Chars ==
    {UpperChars[i] : i \in 1..26} \cup {LowerChars[i] : i \in 1..26}
    \cup DigitChars \cup {" ", "(", ")", "[", "]", "&", ".", "-", "_", ","}

\* str.lower() on one character
LowerChar ==
    [c \in Chars |->
        IF \E i \in 1..26 : UpperChars[i] = c
        THEN LowerChars[CHOOSE i \in 1..26 : UpperChars[i] = c]
        ELSE c]

\* str.lower()
Lower(s) == [i \in 1..Len(s) |-> LowerChar[s[i]]]

\* regex class \w (letters, digits, underscore)
WordChars ==
    {UpperChars[i] : i \in 1..26} \cup {LowerChars[i] : i \in 1..26}
    \cup DigitChars \cup {"_"}

IsWordChar(c) == c \in WordChars

\* regex class \s
IsSpace(c) == c = " "

\* s[i:] of Python, for a 1-based position i
Drop(s, i) == SubSeq(s, i, Len(s))

\* does p occur in s starting exactly at position i
MatchAt(s, p, i) ==
    /\ i >= 1
    /\ i + Len(p) - 1 <= Len(s)
    /\ p = <<>> \/ (s[i] = p[1] /\ SubSeq(s, i, i + Len(p) - 1) = p)

\* Python's `p in s`
Contains(s, p) == \E i \in 1..(Len(s) + 1) : MatchAt(s, p, i)

\* str.endswith
EndsWith(s, p) == Len(p) <= Len(s) /\ MatchAt(s, p, Len(s) - Len(p) + 1)

\* str.strip()
RECURSIVE LStrip(_)
LStrip(s) == IF s # <<>> /\ IsSpace(Head(s)) THEN LStrip(Tail(s)) ELSE s

RECURSIVE RStrip(_)
RStrip(s) ==
    IF s # <<>> /\ IsSpace(s[Len(s)]) THEN RStrip(SubSeq(s, 1, Len(s) - 1)) ELSE s

Strip(s) == LStrip(RStrip(s))

\* re.sub(r'\s+', ' ', s)
RECURSIVE CollapseSpaces(_)
CollapseSpaces(s) ==
    IF s = <<>> THEN <<>>
    ELSE IF IsSpace(Head(s))
         THEN <<" ">> \o CollapseSpaces(LStrip(s))
         ELSE <<Head(s)>> \o CollapseSpaces(Tail(s))

\* re.sub(r'[^\w\s]', ' ', s)
PunctToSpace(s) ==
    [i \in 1..Len(s) |-> IF IsWordChar(s[i]) \/ IsSpace(s[i]) THEN s[i] ELSE " "]

\* str.split() as the set of words: set(s.split())
RECURSIVE WordSet(_)
WordSet(s) ==
    LET t == LStrip(s) IN
    IF t = <<>> THEN {}
    ELSE LET n == IF \E i \in 1..Len(t) : IsSpace(t[i])
                  THEN (CHOOSE i \in 1..Len(t) :
                          /\ IsSpace(t[i])
                          /\ \A j \in 1..(i - 1) : ~IsSpace(t[j])) - 1
                  ELSE Len(t)
         IN {SubSeq(t, 1, n)} \cup WordSet(Drop(t, n + 1))

\* re.sub(literal, '', s, flags=re.IGNORECASE): every non-overlapping
\* occurrence, scanning from the left
RECURSIVE SubLiteralScan(_, _)
SubLiteralScan(s, p) ==
    IF Len(s) < Len(p) THEN s
    ELSE IF Lower(SubSeq(s, 1, Len(p))) = p
         THEN SubLiteralScan(Drop(s, Len(p) + 1), p)
         ELSE <<Head(s)>> \o SubLiteralScan(Tail(s), p)

SubLiteral(s, p) == IF Contains(Lower(s), p) THEN SubLiteralScan(s, p) ELSE s

\* position of the first close of s at or after position i, 0 if there is none
FirstClose(s, i, close) ==
    IF \E j \in i..Len(s) : s[j] = close
    THEN CHOOSE j \in i..Len(s) :
           s[j] = close /\ \A k \in i..(j - 1) : s[k] # close
    ELSE 0

\* re.sub(r'<open>.*?\)', '', s, flags=re.IGNORECASE): from an occurrence of
\* open to the nearest following ')'
RECURSIVE SubLazyScan(_, _)
SubLazyScan(s, open) ==
    IF Len(s) <= Len(open) THEN s
    ELSE IF /\ Lower(SubSeq(s, 1, Len(open))) = open
            /\ FirstClose(s, Len(open) + 1, ")") # 0
         THEN SubLazyScan(Drop(s, FirstClose(s, Len(open) + 1, ")") + 1), open)
         ELSE <<Head(s)>> \o SubLazyScan(Tail(s), open)

SubLazy(s, open) == IF Contains(Lower(s), open) THEN SubLazyScan(s, open) ELSE s

\* ------------------------------------------------------------------------
\* The data the model runs on
\* ------------------------------------------------------------------------

\* one second; durations are carried in thousandths of a second
Second == 1000

\* the longest answer of a free-text search
MaxHits == 2

\* the longest answer of an identifier search
MaxIsrcHits == 1

Song       == <<"S","o","n","g">>
SongRemix  == <<"S","o","n","g"," ","(","R","e","m","i","x",")">>
SongLive   == <<"S","o","n","g"," ","(","L","i","v","e",")">>
Eclipse    == <<"E","c","l","i","p","s","e">>
OtherTitle == <<"O","t","h","e","r">>
Artist     == <<"A","r","t","i","s","t">>
Isrc1      == <<"U","S","1">>
Isrc1Lower == <<"u","s","1">>

\* the track dicts handed to SmartResolver.resolve_track
Tracks ==
    {[title |-> Song,    artist |-> Artist, album |-> <<>>,
      duration_ms |-> 200 * Second, isrc |-> Isrc1],
     [title |-> Song,    artist |-> Artist, album |-> <<>>,
      duration_ms |-> 200 * Second, isrc |-> <<>>],
     [title |-> Eclipse, artist |-> Artist, album |-> <<>>,
      duration_ms |-> 200 * Second, isrc |-> Isrc1]}

\* the tracks the identifier service may hold for the identifier
SpotifyItems ==
    {[name |-> Song,    artist |-> Artist, album |-> <<>>,
      duration_ms |-> 200 * Second, isrc |-> Isrc1],
     [name |-> Eclipse, artist |-> Artist, album |-> <<>>,
      duration_ms |-> 200 * Second, isrc |-> <<>>]}

RawResult(id, title, isrc) ==
    [resultType |-> "song", videoId |-> id, title |-> title,
     artists |-> <<Artist>>, album |-> <<>>,
     duration_seconds |-> 200 * Second, isrc |-> isrc]

\* the search results the platform may hold
RawResults ==
    {RawResult(<<"v","1">>, Song, Isrc1),
     RawResult(<<"v","2">>, SongRemix, <<>>),
     RawResult(<<"v","3">>, SongLive, <<>>),
     RawResult(<<"v","4">>, OtherTitle, Isrc1Lower),
     RawResult(<<"v","5">>, Eclipse, Isrc1)}

\* the results an identifier search may return
IsrcRawResults ==
    {RawResult(<<"v","1">>, Song, Isrc1),
     RawResult(<<"v","5">>, Eclipse, Isrc1)}

\* the results a ranker is called with: those above and one that has
\* nothing in common with any track and carries an indicator ("clip")
RankResults ==
    RawResults \cup
    {[RawResult(<<"v","8">>, <<"C","l","i","p">>, <<>>)
        EXCEPT !.artists = <<<<"B","a","n","d">>>>, !.duration_seconds = 0]}

\* the names of a list of artists that are not empty
RECURSIVE Names(_)
Names(artists) ==
    IF artists = <<>> THEN <<>>
    ELSE (IF Head(artists) # <<>> THEN <<Head(artists)>> ELSE <<>>)
         \o Names(Tail(artists))

\* a Candidate built from a search result
CandidateOf(yt_result, source) ==
    [video_id |-> yt_result.videoId,
     title    |-> yt_result.title,
     artists  |-> Names(yt_result.artists),
     album    |-> yt_result.album,
     duration |-> yt_result.duration_seconds,
     isrc     |-> yt_result.isrc,
     source   |-> source]

\* ------------------------------------------------------------------------
\* resolver.py: AntigravityResolver
\* ------------------------------------------------------------------------

\* one similarity point: 1.0 is SimOne, a Jaccard quotient i/u is
\* i * SimOne / u, exact for every u that divides SimOne (all u <= 10)
SimOne == 2520

\* p score points; a confidence c is carried as the c * 100 points it is
\* computed from (confidence = score / max_score with max_score = 100)
Points(p) == p * SimOne

Max(a, b) == IF a >= b THEN a ELSE b

Min(a, b) == IF a <= b THEN a ELSE b

\* the blacklist compiled in __init__; lazy marks the patterns that end in
\* .*?\) and text is the literal part
unwanted_patterns == <<
    [lazy |-> FALSE, text |-> <<"(","l","i","v","e",")">>],
    [lazy |-> TRUE , text |-> <<"(","l","i","v","e">>],
    [lazy |-> FALSE, text |-> <<"l","i","v","e"," ","a","t">>],
    [lazy |-> FALSE, text |-> <<"l","i","v","e"," ","f","r","o","m">>],
    [lazy |-> FALSE, text |-> <<"(","r","e","m","i","x",")">>],
    [lazy |-> TRUE , text |-> <<"(","r","e","m","i","x">>],
    [lazy |-> FALSE, text |-> <<"r","e","m","i","x"," ","b","y">>],
    [lazy |-> FALSE, text |-> <<"(","c","o","v","e","r",")">>],
    [lazy |-> TRUE , text |-> <<"(","c","o","v","e","r">>],
    [lazy |-> FALSE, text |-> <<"c","o","v","e","r"," ","b","y">>],
    [lazy |-> FALSE, text |-> <<"(","a","c","o","u","s","t","i","c",")">>],
    [lazy |-> TRUE , text |-> <<"(","a","c","o","u","s","t","i","c">>],
    [lazy |-> FALSE, text |-> <<"(","k","a","r","a","o","k","e",")">>],
    [lazy |-> TRUE , text |-> <<"(","k","a","r","a","o","k","e">>],
    [lazy |-> FALSE, text |-> <<"(","i","n","s","t","r","u","m","e","n","t","a","l",")">>],
    [lazy |-> TRUE , text |-> <<"(","i","n","s","t","r","u","m","e","n","t","a","l">>],
    [lazy |-> FALSE, text |-> <<"(","d","e","m","o",")">>],
    [lazy |-> TRUE , text |-> <<"(","d","e","m","o">>],
    [lazy |-> FALSE, text |-> <<"(","e","x","t","e","n","d","e","d",")">>],
    [lazy |-> TRUE , text |-> <<"(","e","x","t","e","n","d","e","d">>],
    [lazy |-> TRUE , text |-> <<"(","r","a","d","i","o">>],
    [lazy |-> FALSE, text |-> <<"(","e","d","i","t",")">>],
    [lazy |-> TRUE , text |-> <<"(","v","e","r","s","i","o","n">>],
    [lazy |-> FALSE, text |-> <<"s","l","o","w","e","d">>],
    [lazy |-> FALSE, text |-> <<"r","e","v","e","r","b">>],
    [lazy |-> FALSE, text |-> <<"n","i","g","h","t","c","o","r","e">>],
    [lazy |-> FALSE, text |-> <<"8","d"," ","a","u","d","i","o">>],
    [lazy |-> FALSE, text |-> <<"s","p","a","t","i","a","l"," ","a","u","d","i","o">>],
    [lazy |-> FALSE, text |-> <<"d","o","l","b","y"," ","a","t","m","o","s">>] >>

\* the substitutions of the first n patterns, in the order of the list
RECURSIVE StripPatterns(_, _)
StripPatterns(s, n) ==
    IF n = 0 THEN s
    ELSE LET cleaned == StripPatterns(s, n - 1) IN
         IF cleaned = <<>> THEN <<>>
         ELSE IF unwanted_patterns[n].lazy
         THEN SubLazy(cleaned, unwanted_patterns[n].text)
         ELSE SubLiteral(cleaned, unwanted_patterns[n].text)

clean_title(title) ==
    IF title = <<>> THEN <<>>
    ELSE Strip(CollapseSpaces(PunctToSpace(StripPatterns(title, Len(unwanted_patterns)))))

\* len(a & b) / len(a | b)
Jaccard(a, b) == (Cardinality(a \cap b) * SimOne) \div Cardinality(a \cup b)

\* the bonus given only when the candidate's title contains the target's
calculate_title_similarity_oneway(target_title, candidate_title) ==
    IF target_title = <<>> \/ candidate_title = <<>> THEN 0
    ELSE LET target_clean    == Lower(clean_title(target_title))
             candidate_clean == Lower(clean_title(candidate_title))
             target_words    == WordSet(target_clean)
             candidate_words == WordSet(candidate_clean)
         IN IF target_clean = candidate_clean THEN SimOne
            ELSE IF target_words = {} \/ candidate_words = {} THEN 0
            ELSE LET jaccard == Jaccard(target_words, candidate_words)
                     bonus   == IF Contains(candidate_clean, target_clean)
                                THEN SimOne \div 5 ELSE 0
                 IN Min(SimOne, jaccard + bonus)

\* _calculate_title_similarity
calculate_title_similarity(target_title, candidate_title) ==
    IF target_title = <<>> \/ candidate_title = <<>> THEN 0
    ELSE LET target_clean    == Lower(clean_title(target_title))
             candidate_clean == Lower(clean_title(candidate_title))
             target_words    == WordSet(target_clean)
             candidate_words == WordSet(candidate_clean)
         IN IF target_clean = candidate_clean THEN SimOne
            ELSE IF target_words = {} \/ candidate_words = {} THEN 0
            ELSE LET jaccard == Jaccard(target_words, candidate_words)
                     bonus   == IF \/ Contains(candidate_clean, target_clean)
                                   \/ Contains(target_clean, candidate_clean)
                                THEN SimOne \div 5 ELSE 0
                 IN Min(SimOne, jaccard + bonus)

\* number of leading whitespace characters
LeadSpaces(s) == Len(s) - Len(LStrip(s))

\* re.sub(r'\s*\(.*?\)\s*', '', s) and the same for [ ]
RECURSIVE SubBracket(_, _, _)
SubBracket(s, open, close) ==
    IF s = <<>> THEN <<>>
    ELSE LET k == LeadSpaces(s) IN
         IF /\ k + 1 <= Len(s)
            /\ s[k + 1] = open
            /\ FirstClose(s, k + 2, close) # 0
         THEN SubBracket(LStrip(Drop(s, FirstClose(s, k + 2, close) + 1)), open, close)
         ELSE <<Head(s)>> \o SubBracket(Tail(s), open, close)

\* re.sub(r'\s*<p>.*', '', s): cut at the first occurrence of p, together
\* with the whitespace before it
CutFrom(s, p, ignorecase) ==
    LET h == IF ignorecase THEN Lower(s) ELSE s IN
    IF Contains(h, p)
    THEN RStrip(SubSeq(s, 1, (CHOOSE i \in 1..Len(s) :
                                /\ MatchAt(h, p, i)
                                /\ \A j \in 1..(i - 1) : ~MatchAt(h, p, j)) - 1))
    ELSE s

clean_artist(artist) ==
    IF artist = <<>> THEN <<>>
    ELSE Strip(CollapseSpaces(
           CutFrom(CutFrom(SubBracket(SubBracket(artist, "(", ")"), "[", "]"),
                           <<"f","e","a","t",".">>, TRUE),
                   <<"&">>, FALSE)))

\* the loop over candidate_artists from position i on, best_match so far
RECURSIVE ArtistLoop(_, _, _, _)
ArtistLoop(target_clean, candidate_artists, i, best_match) ==
    IF i > Len(candidate_artists) THEN best_match
    ELSE LET artist_clean == Lower(clean_artist(candidate_artists[i]))
             target_words == WordSet(target_clean)
             artist_words == WordSet(artist_clean)
         IN IF target_clean = artist_clean THEN SimOne
            ELSE IF \/ Contains(artist_clean, target_clean)
                    \/ Contains(target_clean, artist_clean)
                 THEN (SimOne * 8) \div 10
            ELSE IF target_words # {} /\ artist_words # {}
                 THEN ArtistLoop(target_clean, candidate_artists, i + 1,
                                 Max(best_match, Jaccard(target_words, artist_words)))
                 ELSE ArtistLoop(target_clean, candidate_artists, i + 1, best_match)

calculate_artist_similarity(target_artist, candidate_artists) ==
    IF target_artist = <<>> \/ candidate_artists = <<>> THEN 0
    ELSE ArtistLoop(Lower(clean_artist(target_artist)), candidate_artists, 1, 0)

AbsDiff(a, b) == IF a >= b THEN a - b ELSE b - a

\* the steps with the bounds excluded (diff < 1.0, ...)
calculate_duration_similarity_strict(target_duration, candidate_duration) ==
    IF target_duration <= 0 \/ candidate_duration <= 0 THEN 0
    ELSE IF AbsDiff(target_duration, candidate_duration) < Second THEN SimOne
    ELSE IF AbsDiff(target_duration, candidate_duration) < (3 * Second) \div 2
         THEN (SimOne * 6) \div 10
    ELSE IF AbsDiff(target_duration, candidate_duration) < 2 * Second
         THEN (SimOne * 3) \div 10
    ELSE IF AbsDiff(target_duration, candidate_duration) < 3 * Second
         THEN SimOne \div 10
    ELSE 0

\* the last step reaching up to 4 seconds
calculate_duration_similarity_wide(target_duration, candidate_duration) ==
    IF target_duration <= 0 \/ candidate_duration <= 0 THEN 0
    ELSE IF AbsDiff(target_duration, candidate_duration) <= Second THEN SimOne
    ELSE IF AbsDiff(target_duration, candidate_duration) <= (3 * Second) \div 2
         THEN (SimOne * 6) \div 10
    ELSE IF AbsDiff(target_duration, candidate_duration) <= 2 * Second
         THEN (SimOne * 3) \div 10
    ELSE IF AbsDiff(target_duration, candidate_duration) <= 4 * Second
         THEN SimOne \div 10
    ELSE 0

\* _calculate_duration_similarity, on durations in thousandths of a second
calculate_duration_similarity(target_duration, candidate_duration) ==
    IF target_duration <= 0 \/ candidate_duration <= 0 THEN 0
    ELSE LET diff == AbsDiff(target_duration, candidate_duration) IN
         IF diff <= Second THEN SimOne
         ELSE IF diff <= (3 * Second) \div 2 THEN (SimOne * 6) \div 10
         ELSE IF diff <= 2 * Second THEN (SimOne * 3) \div 10
         ELSE IF diff <= 3 * Second THEN SimOne \div 10
         ELSE 0

\* the comparison without the test for an empty argument
calculate_string_similarity_unguarded(str1, str2) ==
    IF Lower(str1) = Lower(str2) THEN SimOne
    ELSE IF Contains(Lower(str2), Lower(str1)) \/ Contains(Lower(str1), Lower(str2))
         THEN (SimOne * 7) \div 10
    ELSE IF WordSet(Lower(str1)) # {} /\ WordSet(Lower(str2)) # {}
         THEN Jaccard(WordSet(Lower(str1)), WordSet(Lower(str2)))
    ELSE 0

\* _calculate_string_similarity
calculate_string_similarity(str1, str2) ==
    IF str1 = <<>> \/ str2 = <<>> THEN 0
    ELSE LET a == Lower(str1)
             b == Lower(str2)
         IN IF a = b THEN SimOne
            ELSE IF Contains(b, a) \/ Contains(a, b) THEN (SimOne * 7) \div 10
            ELSE IF WordSet(a) # {} /\ WordSet(b) # {}
                 THEN Jaccard(WordSet(a), WordSet(b))
                 ELSE 0

\* the indicators scanned by _calculate_unwanted_penalty, each with the
\* penalty of its tier
music_video_indicators == <<
    [text |-> <<"o","f","f","i","c","i","a","l"," ","v","i","d","e","o">>, penalty |-> 50],
    [text |-> <<"m","u","s","i","c"," ","v","i","d","e","o">>, penalty |-> 50],
    [text |-> <<"m","v">>, penalty |-> 50],
    [text |-> <<"o","f","f","i","c","i","a","l"," ","m","v">>, penalty |-> 50],
    [text |-> <<"v","i","d","e","o"," ","c","l","i","p">>, penalty |-> 40],
    [text |-> <<"c","l","i","p">>, penalty |-> 40],
    [text |-> <<"v","i","s","u","a","l">>, penalty |-> 40],
    [text |-> <<"v","i","s","u","a","l","i","z","e","r">>, penalty |-> 40],
    [text |-> <<"l","y","r","i","c"," ","v","i","d","e","o">>, penalty |-> 25],
    [text |-> <<"l","y","r","i","c","s"," ","v","i","d","e","o">>, penalty |-> 25],
    [text |-> <<"a","n","i","m","a","t","e","d">>, penalty |-> 25],
    [text |-> <<"r","e","m","i","x">>, penalty |-> 30],
    [text |-> <<"l","i","v","e">>, penalty |-> 30],
    [text |-> <<"a","c","o","u","s","t","i","c">>, penalty |-> 20],
    [text |-> <<"i","n","s","t","r","u","m","e","n","t","a","l">>, penalty |-> 20],
    [text |-> <<"c","o","v","e","r">>, penalty |-> 20],
    [text |-> <<"k","a","r","a","o","k","e">>, penalty |-> 20],
    [text |-> <<"s","l","o","w","e","d">>, penalty |-> 30],
    [text |-> <<"c","o","n","c","e","r","t">>, penalty |-> 15],
    [text |-> <<"p","e","r","f","o","r","m">>, penalty |-> 15],
    [text |-> <<"t","o","u","r">>, penalty |-> 15],
    [text |-> <<"8","d">>, penalty |-> 15],
    [text |-> <<"8","d"," ","a","u","d","i","o">>, penalty |-> 15] >>

RECURSIVE PenaltyLoop(_, _)
PenaltyLoop(title_lower, i) ==
    IF i > Len(music_video_indicators) THEN 0
    ELSE (IF Contains(title_lower, music_video_indicators[i].text)
          THEN music_video_indicators[i].penalty ELSE 0)
         + PenaltyLoop(title_lower, i + 1)

\* in points
calculate_unwanted_penalty(title) ==
    IF title = <<>> THEN 0 ELSE PenaltyLoop(Lower(title), 1)

\* TrackMetadata.get_duration_seconds
get_duration_seconds(target) ==
    IF target.duration_ms # 0 THEN target.duration_ms ELSE 0

\* the raw score of _calculate_confidence, in units of 1/SimOne point
Score(target, candidate) ==
    LET isrc_term == IF /\ target.isrc # <<>>
                        /\ candidate.isrc # <<>>
                        /\ Lower(target.isrc) = Lower(candidate.isrc)
                     THEN Points(40) ELSE 0
        title_score    == calculate_title_similarity(target.title, candidate.title)
        artist_score   == calculate_artist_similarity(target.artist, candidate.artists)
        duration_score == calculate_duration_similarity(get_duration_seconds(target),
                                                        candidate.duration)
        album_term == IF target.album # <<>> /\ candidate.album # <<>>
                      THEN 5 * calculate_string_similarity(Lower(target.album),
                                                           Lower(candidate.album))
                      ELSE 0
        penalty == Points(calculate_unwanted_penalty(candidate.title))
        exact_bonus == IF /\ 10 * title_score >= 9 * SimOne
                          /\ 10 * artist_score >= 9 * SimOne
                       THEN Points(20) ELSE 0
        candidate_lower == Lower(candidate.title)
        feat_bonus == IF /\ \/ Contains(candidate_lower, <<"f","e","a","t",".">>)
                            \/ Contains(candidate_lower,
                                        <<"f","e","a","t","u","r","i","n","g">>)
                         /\ ~Contains(candidate_lower,
                               <<"i","n","s","t","r","u","m","e","n","t","a","l">>)
                         /\ ~Contains(candidate_lower, <<"r","e","m","i","x">>)
                         /\ ~Contains(candidate_lower,
                               <<"a","c","a","p","e","l","l","a">>)
                      THEN Points(15) ELSE 0
        instrumental_penalty ==
            IF Contains(candidate_lower,
                        <<"i","n","s","t","r","u","m","e","n","t","a","l">>)
            THEN Points(25) ELSE 0
    IN isrc_term + 35 * title_score + 25 * artist_score + 10 * duration_score
       + album_term - penalty + exact_bonus + feat_bonus - instrumental_penalty

\* the confidence without the clamp at 0
calculate_confidence_unclamped(target, candidate) == Score(target, candidate)

\* the confidence of _calculate_confidence: max(0.0, score / max_score)
calculate_confidence(target, candidate) == Max(0, Score(target, candidate))

\* the targets and candidates of the model's data
ConfidenceDomain ==
    {[title |-> t, artist |-> Artist, album |-> <<>>,
      duration_ms |-> 200 * Second, isrc |-> i] :
        t \in {Song, Eclipse}, i \in {Isrc1, <<>>}}
    \X {CandidateOf(r, "query_search") : r \in RankResults}

\* their confidences, computed once
ConfidenceTable ==
    [target \in {[title |-> t, artist |-> Artist, album |-> <<>>,
                  duration_ms |-> 200 * Second, isrc |-> i] :
                    t \in {Song, Eclipse}, i \in {Isrc1, <<>>}},
     candidate \in {CandidateOf(r, "query_search") : r \in RankResults}
     |-> calculate_confidence(target, candidate)]

\* _calculate_confidence(target, candidate), read from the table where the
\* table has the pair
Confidence(target, candidate) ==
    IF <<target, candidate>> \in ConfidenceDomain
    THEN ConfidenceTable[target, candidate]
    ELSE calculate_confidence(target, candidate)

\* the value None, and the unresolved result of every resolution function
None == [resolved |-> FALSE]

\* a descending sort that is not stable: x goes before the elements whose
\* confidence equals its own
RECURSIVE InsertDescUnstable(_, _)
InsertDescUnstable(sorted, x) ==
    IF sorted = <<>> THEN <<x>>
    ELSE IF Head(sorted).confidence > x.confidence
         THEN <<Head(sorted)>> \o InsertDescUnstable(Tail(sorted), x)
         ELSE <<x>> \o sorted

\* list.sort(key=confidence, reverse=True) is stable: x goes behind every
\* element whose confidence is at least its own
RECURSIVE InsertDesc(_, _)
InsertDesc(sorted, x) ==
    IF sorted = <<>> THEN <<x>>
    ELSE IF Head(sorted).confidence >= x.confidence
         THEN <<Head(sorted)>> \o InsertDesc(Tail(sorted), x)
         ELSE <<x>> \o sorted

RECURSIVE SortDesc(_)
SortDesc(s) ==
    IF s = <<>> THEN <<>>
    ELSE InsertDesc(SortDesc(SubSeq(s, 1, Len(s) - 1)), s[Len(s)])

\* the entry of scored_candidates for a candidate: none without confidence
Scored(candidate, confidence) ==
    IF confidence > 0
    THEN <<[candidate |-> candidate, confidence |-> confidence]>>
    ELSE <<>>

\* the scoring loop of resolve: the candidates with confidence > 0, in order
RECURSIVE ScoreAll(_, _)
ScoreAll(target, candidates) ==
    IF candidates = <<>> THEN <<>>
    ELSE Scored(Head(candidates), Confidence(target, Head(candidates)))
         \o ScoreAll(target, Tail(candidates))

\* the final test with the threshold left out
MeetsThresholdAlways(best_confidence, confidence_threshold) ==
    best_confidence > 0

\* the final test of resolve, on the ranker's confidence_threshold
MeetsThreshold(best_confidence, confidence_threshold) ==
    best_confidence >= confidence_threshold

\* the end of resolve: the best of the sorted scored_candidates, if it
\* meets the threshold
Best(scored_candidates, confidence_threshold) ==
    IF scored_candidates = <<>> THEN None
    ELSE IF MeetsThreshold(scored_candidates[1].confidence, confidence_threshold)
         THEN [resolved   |-> TRUE,
               candidate  |-> scored_candidates[1].candidate,
               confidence |-> scored_candidates[1].confidence]
         ELSE None

\* AntigravityResolver.resolve
resolve(target, candidates, confidence_threshold) ==
    IF candidates = <<>> THEN None
    ELSE Best(SortDesc(ScoreAll(target, candidates)), confidence_threshold)

\* ------------------------------------------------------------------------
\* ytmusic_resolver.py: YTMusicResolver
\* ------------------------------------------------------------------------

\* _convert_to_candidate without the test of the title
convert_to_candidate_untitled(yt_result, source) ==
    IF yt_result.videoId = <<>> THEN None
    ELSE IF source = "isrc_search" THEN None
    ELSE CandidateOf(yt_result, source)

\* _convert_to_candidate.  The branch for source "isrc_search" reads the
\* name verbose, which is neither a parameter nor a global of the module;
\* so does the except clause, and the NameError ends the loop of
\* _search_by_isrc, whose except clause returns the candidates collected
\* so far: no result of an identifier search becomes a candidate.
convert_to_candidate(yt_result, source) ==
    IF yt_result.videoId = <<>> THEN None
    ELSE IF yt_result.title = <<>> THEN None
    ELSE IF source = "isrc_search" THEN None
    ELSE CandidateOf(yt_result, source)

\* the loop of _search_by_isrc and of _search_by_query over the results
RECURSIVE ConvertAll(_, _)
ConvertAll(results, source) ==
    IF results = <<>> THEN <<>>
    ELSE LET candidate == IF Head(results).resultType # "song" THEN None
                          ELSE convert_to_candidate(Head(results), source)
         IN (IF candidate # None THEN <<candidate>> ELSE <<>>)
            \o ConvertAll(Tail(results), source)

\* an answer of ytmusic.search: it raises, or it returns a list of results
search_by_isrc(answer) ==
    IF answer.raises THEN <<>> ELSE ConvertAll(answer.results, "isrc_search")

search_by_query(answer) ==
    IF answer.raises THEN <<>> ELSE ConvertAll(answer.results, "query_search")

\* TrackMetadata(...) built from the track dict; an isrc of None and an
\* isrc of '' are both the empty string here (both are falsy in Python)
TrackMetadata(a_track) ==
    [title       |-> a_track.title,
     artist      |-> a_track.artist,
     album       |-> a_track.album,
     duration_ms |-> a_track.duration_ms,
     isrc        |-> a_track.isrc]

\* which searches YTMusicResolver.resolve_track issues for a track
SearchesIssued(client, a_track, isrc_answer) ==
    IF ~client THEN <<>>
    ELSE (IF a_track.isrc # <<>> THEN <<"isrc_search">> ELSE <<>>)
         \o (IF Len(IF a_track.isrc # <<>> THEN search_by_isrc(isrc_answer) ELSE <<>>) < 3
             THEN <<"query_search">> ELSE <<>>)

\* the candidate list YTMusicResolver.resolve_track hands to the ranker
Candidates(a_track, isrc_answer, query_answer) ==
    LET isrc_candidates == IF a_track.isrc # <<>>
                           THEN search_by_isrc(isrc_answer) ELSE <<>>
    IN IF Len(isrc_candidates) < 3
       THEN isrc_candidates \o search_by_query(query_answer)
       ELSE isrc_candidates

\* the dictionary resolve_track returns for the ranker's result
ResolvedTrack(best) ==
    IF best # None
    THEN [resolved   |-> TRUE,
          video_id   |-> best.candidate.video_id,
          title      |-> best.candidate.title,
          artists    |-> best.candidate.artists,
          album      |-> best.candidate.album,
          duration   |-> best.candidate.duration,
          isrc       |-> best.candidate.isrc,
          confidence |-> best.confidence]
    ELSE None

\* resolve_track once the candidates are collected
ResolveCandidates(target, candidates, confidence_threshold) ==
    IF candidates = <<>> THEN None
    ELSE ResolvedTrack(resolve(target, candidates, confidence_threshold))

\* YTMusicResolver.resolve_track; client is FALSE when self.ytmusic is None
resolve_track(client, a_track, confidence_threshold, isrc_answer, query_answer) ==
    IF ~client THEN None
    ELSE ResolveCandidates(TrackMetadata(a_track),
                           Candidates(a_track, isrc_answer, query_answer),
                           confidence_threshold)

\* resolve_with_ytmusic: a resolver is constructed for the call; any
\* exception of the construction or of the resolution gives None
resolve_with_ytmusic(client, a_track, confidence_threshold, isrc_answer, query_answer) ==
    resolve_track(client, a_track, confidence_threshold, isrc_answer, query_answer)

\* ------------------------------------------------------------------------
\* isrc_resolver.py: AntigravityISRCResolver
\* ------------------------------------------------------------------------

\* a threshold of 0.50 for the identifier resolver
IsrcThresholdLow == Points(50)

\* the threshold of the YTMusicResolver built in __init__ (0.75)
IsrcThreshold == Points(75)

\* the version suffixes of the local clean_title of _calculate_title_similarity
suffixes == <<
    <<" ","-"," ","s","p","e","d"," ","u","p">>,
    <<" ","(","s","p","e","d"," ","u","p",")">>,
    <<" ","s","p","e","d"," ","u","p">>,
    <<" ","-"," ","i","n","s","t","r","u","m","e","n","t","a","l">>,
    <<" ","(","i","n","s","t","r","u","m","e","n","t","a","l",")">>,
    <<" ","i","n","s","t","r","u","m","e","n","t","a","l">>,
    <<" ","-"," ","c","l","e","a","n">>,
    <<" ","(","c","l","e","a","n",")">>,
    <<" ","c","l","e","a","n">>,
    <<" ","-"," ","e","x","p","l","i","c","i","t">>,
    <<" ","(","e","x","p","l","i","c","i","t",")">>,
    <<" ","e","x","p","l","i","c","i","t">>,
    <<" ","-"," ","r","a","d","i","o"," ","e","d","i","t">>,
    <<" ","(","r","a","d","i","o"," ","e","d","i","t",")">>,
    <<" ","r","a","d","i","o"," ","e","d","i","t">>,
    <<" ","-"," ","r","e","m","i","x">>,
    <<" ","(","r","e","m","i","x",")">>,
    <<" ","r","e","m","i","x">>,
    <<" ","-"," ","v","e","r","s","i","o","n">>,
    <<" ","(","v","e","r","s","i","o","n",")">>,
    <<" ","v","e","r","s","i","o","n">> >>

\* clean_title: the first suffix of the list the title ends with is cut
RECURSIVE CutSuffix(_, _)
CutSuffix(title, i) ==
    IF i > Len(suffixes) THEN title
    ELSE IF EndsWith(title, suffixes[i])
         THEN SubSeq(title, 1, Len(title) - Len(suffixes[i]))
         ELSE CutSuffix(title, i + 1)

isrc_clean_title(title) == Strip(CutSuffix(title, 1))

\* AntigravityISRCResolver._calculate_title_similarity
isrc_calculate_title_similarity(expected_title, actual_title) ==
    IF expected_title = <<>> \/ actual_title = <<>> THEN 0
    ELSE LET expected_lower == Lower(expected_title)
             actual_lower   == Lower(actual_title)
             expected_clean == isrc_clean_title(expected_lower)
             actual_clean   == isrc_clean_title(actual_lower)
             expected_words == WordSet(expected_clean)
             actual_words   == WordSet(actual_clean)
         IN IF expected_lower = actual_lower THEN SimOne
            ELSE IF expected_clean = actual_clean /\ expected_clean # actual_lower
                 THEN (SimOne * 9) \div 10
            ELSE IF \/ Contains(actual_lower, expected_lower)
                    \/ Contains(expected_lower, actual_lower)
                 THEN (SimOne * 8) \div 10
            ELSE IF \/ Contains(actual_clean, expected_clean)
                    \/ Contains(expected_clean, actual_clean)
                 THEN (SimOne * 7) \div 10
            ELSE IF expected_words # {} /\ actual_words # {}
                 THEN Jaccard(expected_words, actual_words)
                 ELSE 0

\* AntigravityISRCResolver._calculate_artist_similarity
RECURSIVE IsrcArtistLoop(_, _, _)
IsrcArtistLoop(expected_lower, actual_artists, i) ==
    IF i > Len(actual_artists) THEN 0
    ELSE IF actual_artists[i] = <<>>
         THEN IsrcArtistLoop(expected_lower, actual_artists, i + 1)
    ELSE IF expected_lower = Lower(actual_artists[i]) THEN SimOne
    ELSE IF \/ Contains(Lower(actual_artists[i]), expected_lower)
            \/ Contains(expected_lower, Lower(actual_artists[i]))
         THEN (SimOne * 8) \div 10
    ELSE IsrcArtistLoop(expected_lower, actual_artists, i + 1)

isrc_calculate_artist_similarity(expected_artist, actual_artists) ==
    IF expected_artist = <<>> \/ actual_artists = <<>> THEN 0
    ELSE IsrcArtistLoop(Lower(expected_artist), actual_artists, 1)

\* the collision test with "and" in place of "or"
IsCollisionBoth(title_match, artist_match) ==
    /\ 10 * title_match < 5 * SimOne
    /\ 10 * artist_match < 7 * SimOne

\* the collision test of resolve_by_isrc:
\* title_match < 0.5 or artist_match < 0.7
IsCollision(title_match, artist_match) ==
    \/ 10 * title_match < 5 * SimOne
    \/ 10 * artist_match < 7 * SimOne

\* the value a call gives when its exception is not caught
Raised == [raised |-> TRUE]

\* _get_isrc_metadata without its try/except
get_isrc_metadata_unguarded(isrc, answer) ==
    IF answer.raises THEN Raised
    ELSE IF answer.items = <<>> THEN None
    ELSE [title       |-> answer.items[1].name,
          artist      |-> answer.items[1].artist,
          album       |-> answer.items[1].album,
          duration_ms |-> answer.items[1].duration_ms,
          isrc        |-> IF answer.items[1].isrc # <<>>
                          THEN answer.items[1].isrc ELSE isrc]

\* _get_isrc_metadata: the answer of spotify.search(q="isrc:...") either
\* raises or carries a list of items; any exception gives None
get_isrc_metadata(isrc, answer) ==
    IF answer.raises THEN None
    ELSE IF answer.items = <<>> THEN None
    ELSE [title       |-> answer.items[1].name,
          artist      |-> answer.items[1].artist,
          album       |-> answer.items[1].album,
          duration_ms |-> answer.items[1].duration_ms,
          isrc        |-> IF answer.items[1].isrc # <<>>
                          THEN answer.items[1].isrc ELSE isrc]

\* the outcomes of the calls made by _validate_video_id
ProbeAnswers ==
    {"raises", "no_playlist", "no_tracks", "age_restricted",
     "not_in_search", "search_raises", "accessible"}

\* _validate_video_id: True only when the watch playlist has tracks, no
\* header mentions an age restriction and the search finds the video
validate_video_id(probe) == probe = "accessible"

\* the fallback_track dict of resolve_by_isrc: 'isrc': None
fallback_track(metadata) ==
    [title       |-> metadata.title,
     artist      |-> metadata.artist,
     album       |-> metadata.album,
     duration_ms |-> metadata.duration_ms,
     isrc        |-> <<>>]

\* ------------------------------------------------------------------------
\* smart_resolver.py: SmartResolver
\* ------------------------------------------------------------------------

\* the threshold resolve_track passes to resolve_with_ytmusic (0.50)
OperationalThreshold == Points(50)

\* the test of STEP 1 without the test of the identifier
UseIsrcFirstAlways(isrc, spotify) == spotify

\* the test of STEP 1: if isrc and self.has_spotify
UseIsrcFirst(isrc, spotify) == isrc # <<>> /\ spotify

\* ------------------------------------------------------------------------
\* The runs of the model
\* ------------------------------------------------------------------------

\* the sequences without repetition over S of length at most n
RECURSIVE SeqsUpTo(_, _)
SeqsUpTo(S, n) ==
    IF n = 0 THEN {<<>>}
    ELSE LET shorter == SeqsUpTo(S, n - 1) IN
         shorter \cup {Append(s, x) : s \in shorter, x \in S}

DistinctSeqs(S, n) ==
    {s \in SeqsUpTo(S, n) : \A i, j \in 1..Len(s) : i # j => s[i] # s[j]}

\* the confidence thresholds a ranker is configured with: 0.50, 0.75 and
\* the default 0.85
Thresholds == {Points(50), Points(75), Points(85)}

\* ------------------------------------------------------------------------
\* State
\* ------------------------------------------------------------------------

VARIABLES
    pc,              \* position of the run of SmartResolver.resolve_track
    track,           \* its argument
    has_spotify,     \* SmartResolver.has_spotify
    ytmusic,         \* whether isrc_resolver.ytmusic_resolver.ytmusic is a client
                     \* (there is no isrc_resolver without has_spotify)
    spotify_index,   \* the items the identifier service holds
    yt_isrc_index,   \* what the platform answers to an identifier search
    yt_query_index,  \* what the platform answers to a free-text search
    isrc_metadata,   \* resolve_by_isrc: isrc_metadata
    result,          \* resolve_by_isrc: result
    verdict,         \* what resolve_by_isrc decided about result
    isrc_result,     \* resolve_track: isrc_result
    outcome,         \* the value resolve_track returned
    attempts,        \* the calls of YTMusicResolver.resolve_track so far
    calls,           \* how often each other external call was made
    raised,          \* the external calls that raised in this run
    call,            \* a direct call of a function, with its arguments
    ret,             \* and the value it returned
    stop_event,      \* main: whether the Event given to the workers is set
    frame,           \* download_audio: its position and its local variables
    trace,           \* download_audio: the launches of _run_with_exe, and the
                     \* external operations started with the event set
    output_file,     \* whether a file of more than 1024 bytes is at output_wav
    futures,         \* main: the state of the future of each track
    failures,        \* main: failures
    playlist_dir,    \* the files of output/playlist
    workers,         \* the concurrent calls of smart_resolve_track
    heap             \* the resolver objects those calls constructed

vars == <<pc, track, has_spotify, ytmusic, spotify_index, yt_isrc_index,
          yt_query_index, isrc_metadata, result, verdict, isrc_result,
          outcome, attempts, calls, raised, call, ret, stop_event, frame,
          trace, output_file, futures, failures, playlist_dir, workers, heap>>

\* what a run of the pipeline reads and never writes: its argument, the
\* services, and the state of the other entry points
env == <<track, has_spotify, ytmusic, spotify_index, yt_isrc_index, yt_query_index,
         stop_event, frame, trace, output_file, futures, failures, playlist_dir,
         workers, heap>>

\* no direct call, and no value returned yet
NoCall == [fn |-> "none"]
NoRet  == [returned |-> FALSE]

\* no call of download_audio is under way
DownloadAtRest ==
    /\ frame = [pc |-> "none"]
    /\ trace = <<>>
    /\ output_file = FALSE

\* main is not running
BatchAtRest ==
    /\ futures = <<>>
    /\ failures = <<>>
    /\ playlist_dir = {}

\* no concurrent resolutions are under way
PoolAtRest ==
    /\ workers = <<>>
    /\ heap = <<>>

Init ==
    /\ pc = "start"
    /\ track \in Tracks
    /\ has_spotify \in BOOLEAN
    /\ ytmusic \in (IF has_spotify THEN BOOLEAN ELSE {FALSE})
    /\ spotify_index \in DistinctSeqs(SpotifyItems, 1)
    /\ yt_isrc_index \in DistinctSeqs(IsrcRawResults, MaxIsrcHits)
    /\ yt_query_index \in DistinctSeqs(RawResults, MaxHits)
    /\ isrc_metadata = None
    /\ result = None
    /\ verdict = "none"
    /\ isrc_result = None
    /\ outcome = NoRet
    /\ attempts = <<>>
    /\ calls = [lookup |-> 0, collision_check |-> 0, probe |-> 0]
    /\ raised = {}
    /\ call = NoCall
    /\ ret = NoRet
    /\ stop_event = FALSE
    /\ DownloadAtRest
    /\ BatchAtRest
    /\ PoolAtRest

\* whether a call raises, for a call that is made
Raises(made) == IF made THEN BOOLEAN ELSE {FALSE}

\* an answer of ytmusic.search
SearchAnswer(raises, index) == [raises |-> raises, results |-> index]

\* the video ids a search returned; none when it was not made or raised
RECURSIVE VideoIds(_)
VideoIds(results) ==
    IF results = <<>> THEN {}
    ELSE {Head(results).videoId} \cup VideoIds(Tail(results))

ReturnedIds(made, answer) ==
    IF made /\ ~answer.raises THEN VideoIds(answer.results) ELSE {}

\* the video id and the source of each candidate of a list
Entries(candidates) ==
    [i \in 1..Len(candidates) |->
        [video_id |-> candidates[i].video_id, source |-> candidates[i].source]]

\* the record of one call of YTMusicResolver.resolve_track
Attempt(site, client, target, threshold, isrc_answer, query_answer, value) ==
    [site       |-> site,
     isrc       |-> target.isrc,
     threshold  |-> threshold,
     searches   |-> SearchesIssued(client, target, isrc_answer),
     isrc_ids   |-> ReturnedIds(client /\ target.isrc # <<>>, isrc_answer),
     candidates |-> IF client
                    THEN Entries(Candidates(target, isrc_answer, query_answer))
                    ELSE <<>>,
     video_id   |-> IF value = None THEN <<>> ELSE value.video_id]

\* the searches of an attempt that raised
RaisedSearches(client, target, isrc_answer, isrc_raises, query_raises) ==
    {s \in {"isrc_search", "query_search"} :
        /\ \E i \in 1..Len(SearchesIssued(client, target, isrc_answer)) :
              SearchesIssued(client, target, isrc_answer)[i] = s
        /\ IF s = "isrc_search" THEN isrc_raises ELSE query_raises}

\* ------------------------------------------------------------------------
\* One run of SmartResolver.resolve_track
\* ------------------------------------------------------------------------

\* resolve_track, STEP 1: the identifier path is taken only with an
\* identifier and a working identifier service
Start ==
    /\ pc = "start"
    /\ pc' = IF UseIsrcFirst(track.isrc, has_spotify) THEN "lookup" ELSE "metadata"
    /\ UNCHANGED <<env, isrc_metadata, result, verdict, isrc_result, outcome,
                   attempts, calls, raised, call, ret>>

\* resolve_by_isrc, STEP 1: the identifier lookup
Lookup ==
    /\ pc = "lookup"
    /\ \E raises \in BOOLEAN :
         LET meta == get_isrc_metadata(track.isrc,
                                       [raises |-> raises, items |-> spotify_index])
         IN /\ calls' = [calls EXCEPT !.lookup = @ + 1]
            /\ raised' = IF raises THEN raised \cup {"lookup"} ELSE raised
            /\ IF meta = Raised
               THEN pc' = "raised" /\ UNCHANGED isrc_metadata
               ELSE IF meta = None
                    THEN pc' = "metadata" /\ UNCHANGED isrc_metadata
                    ELSE pc' = "isrc_resolve" /\ isrc_metadata' = meta
    /\ UNCHANGED <<env, result, verdict, isrc_result, outcome, attempts, call, ret>>

\* resolve_by_isrc, STEPS 2 and 3: the authoritative metadata is resolved
\* with the identifier resolver (threshold 0.75)
IsrcResolve ==
    /\ pc = "isrc_resolve"
    /\ \E isrc_raises \in Raises(ytmusic /\ isrc_metadata.isrc # <<>>),
          query_raises \in Raises(ytmusic) :
         LET isrc_answer  == SearchAnswer(isrc_raises, yt_isrc_index)
             query_answer == SearchAnswer(query_raises, yt_query_index)
         IN \E value \in {resolve_track(ytmusic, isrc_metadata, IsrcThreshold,
                                      isrc_answer, query_answer)} :
            /\ attempts' = Append(attempts,
                              Attempt("isrc", ytmusic, isrc_metadata, IsrcThreshold,
                                      isrc_answer, query_answer, value))
            /\ raised' = raised \cup RaisedSearches(ytmusic, isrc_metadata, isrc_answer,
                                                    isrc_raises, query_raises)
            /\ result' = value
            /\ pc' = IF value = None THEN "metadata" ELSE "collision"
    /\ UNCHANGED <<env, isrc_metadata, verdict, isrc_result, outcome, calls, call, ret>>

\* resolve_by_isrc, STEP 4: the result is compared with the authoritative
\* title and artist
CollisionCheck ==
    /\ pc = "collision"
    /\ LET title_match  == isrc_calculate_title_similarity(isrc_metadata.title,
                                                           result.title)
           artist_match == isrc_calculate_artist_similarity(isrc_metadata.artist,
                                                            result.artists)
       IN IF IsCollision(title_match, artist_match)
          THEN verdict' = "collision" /\ pc' = "fallback"
          ELSE verdict' = "verified" /\ pc' = "validate"
    /\ calls' = [calls EXCEPT !.collision_check = @ + 1]
    /\ UNCHANGED <<env, isrc_metadata, result, isrc_result, outcome, attempts,
                   raised, call, ret>>

\* resolve_by_isrc, STEP 5: the accessibility probe; an accessible result
\* is returned by resolve_by_isrc and then by resolve_track
Validate ==
    /\ pc = "validate"
    /\ \E probe \in ProbeAnswers :
         /\ raised' = IF probe \in {"raises", "search_raises"}
                      THEN raised \cup {"probe"} ELSE raised
         /\ IF result.video_id # <<>> /\ validate_video_id(probe)
            THEN /\ verdict' = "accessible"
                 /\ isrc_result' = result
                 /\ outcome' = result
                 /\ pc' = "done"
            ELSE /\ verdict' = "dead"
                 /\ pc' = "fallback"
                 /\ UNCHANGED <<isrc_result, outcome>>
    /\ calls' = [calls EXCEPT !.probe = @ + 1]
    /\ UNCHANGED <<env, isrc_metadata, result, attempts, call, ret>>

\* the fallback, tried again when it yields nothing
FallbackAgain ==
    /\ pc = "fallback"
    /\ \E isrc_raises \in Raises(FALSE), query_raises \in Raises(ytmusic) :
         LET target       == fallback_track(isrc_metadata)
             isrc_answer  == SearchAnswer(isrc_raises, yt_isrc_index)
             query_answer == SearchAnswer(query_raises, yt_query_index)
         IN \E value \in {resolve_track(ytmusic, target, IsrcThreshold,
                                      isrc_answer, query_answer)} :
            /\ attempts' = Append(attempts,
                              Attempt("fallback", ytmusic, target, IsrcThreshold,
                                      isrc_answer, query_answer, value))
            /\ raised' = raised \cup RaisedSearches(ytmusic, target, isrc_answer,
                                                    isrc_raises, query_raises)
            /\ isrc_result' = value
            /\ IF value # None
               THEN outcome' = value /\ pc' = "done"
               ELSE pc' = "fallback" /\ UNCHANGED outcome
    /\ UNCHANGED <<env, isrc_metadata, result, verdict, calls, call, ret>>

\* resolve_by_isrc, after a collision or a failed probe: the authoritative
\* metadata without the identifier is resolved with the same resolver
Fallback ==
    /\ pc = "fallback"
    /\ \E isrc_raises \in Raises(FALSE), query_raises \in Raises(ytmusic) :
         LET target       == fallback_track(isrc_metadata)
             isrc_answer  == SearchAnswer(isrc_raises, yt_isrc_index)
             query_answer == SearchAnswer(query_raises, yt_query_index)
         IN \E value \in {resolve_track(ytmusic, target, IsrcThreshold,
                                      isrc_answer, query_answer)} :
            /\ attempts' = Append(attempts,
                              Attempt("fallback", ytmusic, target, IsrcThreshold,
                                      isrc_answer, query_answer, value))
            /\ raised' = raised \cup RaisedSearches(ytmusic, target, isrc_answer,
                                                    isrc_raises, query_raises)
            /\ isrc_result' = value
            /\ IF value # None
               THEN outcome' = value /\ pc' = "done"
               ELSE pc' = "metadata" /\ UNCHANGED outcome
    /\ UNCHANGED <<env, isrc_metadata, result, verdict, calls, call, ret>>

\* resolve_track, STEP 2: the caller's track is resolved with a resolver
\* built for the call (threshold 0.50); its value is returned
Metadata ==
    /\ pc = "metadata"
    /\ \E client \in BOOLEAN :
       \E isrc_raises \in Raises(client /\ track.isrc # <<>>),
          query_raises \in Raises(client) :
         LET isrc_answer  == SearchAnswer(isrc_raises, yt_isrc_index)
             query_answer == SearchAnswer(query_raises, yt_query_index)
         IN \E value \in {resolve_with_ytmusic(client, track, OperationalThreshold,
                                             isrc_answer, query_answer)} :
            /\ attempts' = Append(attempts,
                              Attempt("metadata", client, track, OperationalThreshold,
                                      isrc_answer, query_answer, value))
            /\ raised' = raised \cup RaisedSearches(client, track, isrc_answer,
                                                    isrc_raises, query_raises)
            /\ outcome' = value
            /\ pc' = "done"
    /\ UNCHANGED <<env, isrc_metadata, result, verdict, isrc_result, calls, call, ret>>

Next ==
    \/ Start
    \/ Lookup
    \/ IsrcResolve
    \/ CollisionCheck
    \/ Validate
    \/ Fallback
    \/ Metadata

Spec == Init /\ [][Next]_vars

\* ------------------------------------------------------------------------
\* Direct calls of the candidate collection
\* ------------------------------------------------------------------------

\* search results as the platform may return them: a song, a result
\* without videoId, a result without title, and a result that is no song
SearchResults ==
    {RawResult(<<"v","1">>, Song, Isrc1),
     RawResult(<<>>, Song, Isrc1),
     RawResult(<<"v","6">>, <<>>, <<>>),
     [RawResult(<<"v","7">>, Song, <<>>) EXCEPT !.resultType = "video"]}

\* the state outside a run of the pipeline
Idle ==
    /\ pc = "direct"
    /\ track = CHOOSE t \in Tracks : TRUE
    /\ has_spotify = FALSE
    /\ ytmusic = FALSE
    /\ spotify_index = <<>>
    /\ yt_isrc_index = <<>>
    /\ yt_query_index = <<>>
    /\ isrc_metadata = None
    /\ result = None
    /\ verdict = "none"
    /\ isrc_result = None
    /\ outcome = NoRet
    /\ attempts = <<>>
    /\ calls = [lookup |-> 0, collision_check |-> 0, probe |-> 0]
    /\ raised = {}
    /\ ret = NoRet

SearchInit ==
    /\ Idle
    /\ stop_event = FALSE
    /\ DownloadAtRest
    /\ BatchAtRest
    /\ PoolAtRest
    /\ call \in {[fn |-> "collect", target |-> t,
                  isrc_answer |-> SearchAnswer(isrc_raises, isrc_results),
                  query_answer |-> SearchAnswer(query_raises, query_results)] :
                    t \in Tracks,
                    isrc_raises \in BOOLEAN, query_raises \in BOOLEAN,
                    isrc_results \in DistinctSeqs(SearchResults, MaxIsrcHits),
                    query_results \in DistinctSeqs(SearchResults, MaxHits)}

\* the searches of YTMusicResolver.resolve_track and the list they leave
Collect ==
    /\ call.fn = "collect"
    /\ ret = NoRet
    /\ ret' = [returned |-> TRUE,
               candidates |-> Candidates(call.target, call.isrc_answer,
                                         call.query_answer)]
    /\ UNCHANGED <<pc, env, isrc_metadata, result, verdict, isrc_result, outcome,
                   attempts, calls, raised, call>>

SearchNext == Collect

SearchSpec == SearchInit /\ [][SearchNext]_vars

\* ------------------------------------------------------------------------
\* Direct calls of the scorer and of its similarity functions
\* ------------------------------------------------------------------------

\* the most artists a candidate is credited with
MaxArtists == 2

SongTwo     == <<"S","o","n","g"," ","T","w","o">>
Band        == <<"B","a","n","d">>
ArtistBand  == <<"A","r","t","i","s","t"," ","B","a","n","d">>
Album       == <<"A","l","b","u","m">>

\* the titles a scored candidate carries: "Song MV", "Song Official MV",
\* "Song feat. X", "Song feat. X Remix", "Song Instrumental",
\* "Song (Official Music Video)" and "Song (Live" next to those above
ScoreTitles ==
    {Song, SongRemix, SongLive, OtherTitle,
     <<"S","o","n","g"," ","M","V">>,
     <<"S","o","n","g"," ","O","f","f","i","c","i","a","l"," ","M","V">>,
     <<"S","o","n","g"," ","f","e","a","t","."," ","X">>,
     <<"S","o","n","g"," ","f","e","a","t","."," ","X"," ","R","e","m","i","x">>,
     <<"S","o","n","g"," ","I","n","s","t","r","u","m","e","n","t","a","l">>,
     <<"S","o","n","g"," ","(","O","f","f","i","c","i","a","l"," ","M","u","s","i","c"," ","V","i","d","e","o",")">>,
     <<"S","o","n","g"," ","(","L","i","v","e">>}

\* the targets and the candidates the scorer is called with
ScoreTargets ==
    {[title |-> Song, artist |-> Artist, album |-> a,
      duration_ms |-> 200 * Second, isrc |-> i] :
        a \in {<<>>, Album}, i \in {<<>>, Isrc1}}

ScoreCandidates ==
    {[video_id |-> <<"v","9">>, title |-> t, artists |-> <<n>>, album |-> a,
      duration |-> d, isrc |-> i, source |-> "query_search"] :
        t \in ScoreTitles, n \in {Artist, Band}, a \in {<<>>, Album},
        d \in {0, 200 * Second, 202 * Second},
        i \in {<<>>, Isrc1Lower, <<"G","B","2">>}}

\* the arguments of the similarity functions
TitleValues ==
    {<<>>, Song, SongRemix, SongTwo, OtherTitle,
     <<"T","w","o"," ","S","o","n","g">>,
     <<"T","w","o"," ","O","t","h","e","r">>,
     <<"S","o","n","g"," ","S","o","n","g">>,
     <<"(","L","i","v","e",")">>}

ArtistValues ==
    {Artist, Band, ArtistBand,
     <<"A","r","t">>,
     <<"B","a","n","d"," ","A","r","t","i","s","t">>,
     <<"(","L","i","v","e",")">>,
     <<"&"," ","B","a","n","d">>}

StringValues ==
    {<<>>, Album, Lower(Album), OtherTitle,
     <<"A","l","b","u","m"," ","T","w","o">>}

\* a duration in seconds as both callers produce it: 0 for a missing one
\* (get_duration_seconds, result.get('duration_seconds', 0))
DurationValues ==
    {0} \cup {180 * Second + d :
               d \in {0, 999, 1000, 1001, 1500, 1501, 2000, 2001, 3000, 3001,
                      4000, 20000}}

ScoreInit ==
    /\ Idle
    /\ stop_event = FALSE
    /\ DownloadAtRest
    /\ BatchAtRest
    /\ PoolAtRest
    /\ call \in
         {[fn |-> "confidence", target |-> t, candidate |-> c] :
             t \in ScoreTargets, c \in ScoreCandidates}
         \cup {[fn |-> "title", target_title |-> a, candidate_title |-> b] :
                 a \in TitleValues, b \in TitleValues}
         \cup {[fn |-> "artist", target_artist |-> a, candidate_artists |-> l] :
                 a \in {<<>>, Artist, ArtistBand, <<"f","e","a","t","."," ","B","a","n","d">>},
                 l \in DistinctSeqs(ArtistValues, MaxArtists)}
         \cup {[fn |-> "duration", target_duration |-> a, candidate_duration |-> b] :
                 a \in DurationValues, b \in DurationValues}
         \cup {[fn |-> "string", str1 |-> a, str2 |-> b] :
                 a \in StringValues, b \in StringValues}

Returns(value) ==
    /\ ret = NoRet
    /\ ret' = [returned |-> TRUE, value |-> value]
    /\ UNCHANGED <<pc, env, isrc_metadata, result, verdict, isrc_result, outcome,
                   attempts, calls, raised, call>>

ConfidenceCall ==
    /\ call.fn = "confidence"
    /\ Returns(calculate_confidence(call.target, call.candidate))

TitleCall ==
    /\ call.fn = "title"
    /\ Returns(calculate_title_similarity(call.target_title, call.candidate_title))

ArtistCall ==
    /\ call.fn = "artist"
    /\ Returns(calculate_artist_similarity(call.target_artist,
                                           call.candidate_artists))

DurationCall ==
    /\ call.fn = "duration"
    /\ Returns(calculate_duration_similarity(call.target_duration,
                                             call.candidate_duration))

StringCall ==
    /\ call.fn = "string"
    /\ Returns(calculate_string_similarity(call.str1, call.str2))

ScoreNext ==
    \/ ConfidenceCall
    \/ TitleCall
    \/ ArtistCall
    \/ DurationCall
    \/ StringCall

ScoreSpec == ScoreInit /\ [][ScoreNext]_vars

\* ------------------------------------------------------------------------
\* Direct calls of the ranker
\* ------------------------------------------------------------------------

\* the candidate lists a search can produce
CandidateLists ==
    {search_by_query(SearchAnswer(FALSE, index)) :
        index \in DistinctSeqs(RankResults, MaxHits)}

RankInit ==
    /\ pc = "direct"
    /\ track = CHOOSE t \in Tracks : TRUE
    /\ has_spotify = FALSE
    /\ ytmusic = FALSE
    /\ spotify_index = <<>>
    /\ yt_isrc_index = <<>>
    /\ yt_query_index = <<>>
    /\ isrc_metadata = None
    /\ result = None
    /\ verdict = "none"
    /\ isrc_result = None
    /\ outcome = NoRet
    /\ attempts = <<>>
    /\ calls = [lookup |-> 0, collision_check |-> 0, probe |-> 0]
    /\ raised = {}
    /\ call \in {[fn |-> "resolve", target |-> TrackMetadata(t),
                  candidates |-> c, threshold |-> th] :
                    t \in Tracks, c \in CandidateLists, th \in Thresholds}
    /\ ret = NoRet
    /\ stop_event = FALSE
    /\ DownloadAtRest
    /\ BatchAtRest
    /\ PoolAtRest

\* AntigravityResolver(threshold).resolve(target, candidates)
Resolve ==
    /\ call.fn = "resolve"
    /\ ret = NoRet
    /\ ret' = resolve(call.target, call.candidates, call.threshold)
    /\ UNCHANGED <<pc, env, isrc_metadata, result, verdict, isrc_result, outcome,
                   attempts, calls, raised, call>>

RankNext == Resolve

RankSpec == RankInit /\ [][RankNext]_vars

\* ------------------------------------------------------------------------
\* downloader.py: download_audio
\* ------------------------------------------------------------------------

\* the variables of a run of the pipeline
pipeline == <<pc, track, has_spotify, ytmusic, spotify_index, yt_isrc_index,
              yt_query_index, isrc_metadata, result, verdict, isrc_result,
              outcome, attempts, calls, raised>>

\* one attempt more for each prefix
max_attempts_more == 3 + 1

\* _run_with_exe: prefixes, max_attempts and candidate_timeout (seconds)
prefixes == <<"ytmusicsearch1:", "ytsearch1:">>
max_attempts == 3
candidate_timeout == 180

\* the most entries a search of the yt_dlp module returns
MaxEntries == 2

\* tuples compared as Python compares them, from position i on
RECURSIVE KeyLess(_, _, _)
KeyLess(a, b, i) ==
    IF i > Len(a) THEN FALSE
    ELSE IF a[i] # b[i] THEN a[i] < b[i]
    ELSE KeyLess(a, b, i + 1)

\* score_entry: (dur_score, uploader_match, title_match, indicator_penalty,
\* idx); an entry carries the three values score_entry computes from its
\* title and uploader, and a dur_score of infinity is a leading 1
score_entry(entry, idx, target_s) ==
    <<IF entry.has_duration THEN 0 ELSE 1,
      IF ~entry.has_duration \/ target_s = 0 THEN 0
      ELSE AbsDiff(entry.duration, target_s),
      entry.uploader_match, entry.title_match, entry.indicator_penalty, idx>>

\* scored.sort(): the entries in the order of their keys
SortEntries(entries, target_s) ==
    [r \in 1..Len(entries) |->
        entries[CHOOSE i \in 1..Len(entries) :
                  Cardinality({j \in 1..Len(entries) :
                      KeyLess(score_entry(entries[j], j, target_s),
                              score_entry(entries[i], i, target_s), 1)}) = r - 1]]

\* how _run_with_exe goes on after an attempt ("retry", or the next prefix
\* at once when the video is not available), or returns (ok, msg)
ExeStep(f, how) ==
    IF how = "found"
    THEN [f EXCEPT !.pc = "after_exe", !.ok = TRUE, !.msg = ""]
    ELSE IF how \in {"yt-dlp executable not found", "cancelled by user",
                     "No supported JavaScript runtime"}
    THEN [f EXCEPT !.pc = "after_exe", !.ok = FALSE, !.msg = how]
    ELSE IF how = "retry" /\ f.attempt < max_attempts
    THEN [f EXCEPT !.pc = "attempt", !.attempt = @ + 1]
    ELSE IF f.prefix < Len(prefixes)
    THEN [f EXCEPT !.pc = "attempt", !.prefix = @ + 1, !.attempt = 1]
    ELSE [f EXCEPT !.pc = "after_exe", !.ok = FALSE, !.msg = "tried prefixes"]

\* how the module path goes on after a candidate ("next") or after an
\* exception of an attempt ("retry"); the RuntimeError raised after the last
\* candidate is caught at line 493 and, no_fallback being False there,
\* dropped: download_audio returns
ApiStep(f, how) ==
    IF how = "retry" /\ f.attempt < 2
    THEN [f EXCEPT !.pc = "api_attempt", !.attempt = @ + 1]
    ELSE IF f.rank < Len(f.scored)
    THEN [f EXCEPT !.pc = "api_candidate", !.rank = @ + 1]
    ELSE [f EXCEPT !.pc = "returned"]

\* an external operation is started: a launch of the executable is counted
\* for its prefix, and an operation is late when the event is set
Started(op) ==
    [trace EXCEPT !.launches = IF op = "launch"
                               THEN [@ EXCEPT ![frame.prefix] = @ + 1] ELSE @,
                  !.late = IF stop_event THEN @ \cup {op} ELSE @]

DownloadInit ==
    /\ Idle
    /\ call \in {[fn |-> "download_audio", no_fallback |-> n, target_s |-> t] :
                    n \in BOOLEAN, t \in {0, 200}}
    /\ stop_event \in BOOLEAN
    /\ frame = [pc |-> "run_with_exe", prefix |-> 1, attempt |-> 1, elapsed |-> 0,
                ok |-> FALSE, msg |-> "", scored |-> <<>>, rank |-> 0]
    /\ trace = [launches |-> <<0, 0>>, late |-> {}]
    /\ output_file = FALSE
    /\ BatchAtRest
    /\ PoolAtRest

\* main, lines 439-441: the event is set while download_audio runs
Cancel ==
    /\ frame.pc \notin {"none", "returned", "raised"}
    /\ ~stop_event
    /\ stop_event' = TRUE
    /\ UNCHANGED <<pipeline, call, ret, frame, trace, output_file, futures,
                   failures, playlist_dir, workers, heap>>

\* _run_with_exe, lines 56-58: without the executable it returns at once
ExeStart ==
    /\ frame.pc = "run_with_exe"
    /\ \E which \in BOOLEAN :
         frame' = IF which THEN [frame EXCEPT !.pc = "attempt"]
                  ELSE ExeStep(frame, "yt-dlp executable not found")
    /\ UNCHANGED <<pipeline, call, ret, stop_event, trace, output_file, futures,
                   failures, playlist_dir, workers, heap>>

\* lines 90-101 and 203-235: the event is tested, then the executable is
\* launched; Popen may raise
ExeLaunch ==
    /\ frame.pc = "attempt"
    /\ IF stop_event
       THEN /\ frame' = ExeStep(frame, "cancelled by user")
            /\ UNCHANGED trace
       ELSE /\ trace' = Started("launch")
            /\ \E popen \in {"started", "No supported JavaScript runtime",
                             "This video is not available", "retry"} :
                 frame' = IF popen = "started"
                          THEN [frame EXCEPT !.pc = "wait", !.elapsed = 0]
                          ELSE ExeStep(frame, popen)
    /\ UNCHANGED <<pipeline, call, ret, stop_event, output_file, futures,
                   failures, playlist_dir, workers, heap>>

\* lines 104-131: proc.wait(timeout=1) ran out; the event is tested, then
\* the time
ExeWait ==
    /\ frame.pc = "wait"
    /\ frame' = IF stop_event THEN ExeStep(frame, "cancelled by user")
                ELSE IF frame.elapsed + 1 > candidate_timeout
                     THEN [frame EXCEPT !.pc = "killed", !.elapsed = @ + 1]
                     ELSE [frame EXCEPT !.elapsed = @ + 1]
    /\ UNCHANGED <<pipeline, call, ret, stop_event, trace, output_file, futures,
                   failures, playlist_dir, workers, heap>>

\* lines 133-201: the process has ended or was killed; a file of more than
\* 1024 bytes at a candidate path is success, whether or not the move to
\* output_wav worked
ExeExit ==
    /\ frame.pc \in {"wait", "killed"}
    /\ \E found \in {"none", "output_wav", "other path"}, moved \in BOOLEAN,
          stderr \in {"This video is not available", "retry"} :
         IF found # "none"
         THEN /\ frame' = ExeStep(frame, "found")
              /\ output_file' = \/ output_file
                                 \/ found = "output_wav"
                                 \/ (found = "other path" /\ moved)
         ELSE /\ frame' = ExeStep(frame, stderr)
              /\ UNCHANGED output_file
    /\ UNCHANGED <<pipeline, call, ret, stop_event, trace, futures, failures,
                   playlist_dir, workers, heap>>

\* lines 243-271: download_audio returns when _run_with_exe succeeded, raises
\* under no_fallback or without the yt_dlp module, and else goes on; the
\* locals of _run_with_exe and the count of its launches end with its call
AfterExe ==
    /\ frame.pc = "after_exe"
    /\ \E module \in BOOLEAN :
         frame' = [frame EXCEPT
                     !.pc = IF frame.ok THEN "returned"
                            ELSE IF call.no_fallback \/ ~module THEN "raised"
                            ELSE "api_search",
                     !.prefix = 1, !.attempt = 1, !.elapsed = 0]
    /\ trace' = [trace EXCEPT !.launches = <<0, 0>>]
    /\ UNCHANGED <<pipeline, call, ret, stop_event, output_file, futures,
                   failures, playlist_dir, workers, heap>>

\* lines 301-379: ydl.extract_info for one prefix; without entries after the
\* second prefix the RuntimeError of line 322 is caught at line 493 and
\* dropped
ApiSearch ==
    /\ frame.pc = "api_search"
    /\ trace' = Started("search")
    /\ \E entries \in DistinctSeqs(
            {[has_duration |-> TRUE, duration |-> 200, url |-> TRUE,
              uploader_match |-> 0, title_match |-> -1, indicator_penalty |-> 0],
             [has_duration |-> TRUE, duration |-> 230, url |-> TRUE,
              uploader_match |-> 1, title_match |-> 0, indicator_penalty |-> 2],
             [has_duration |-> FALSE, duration |-> 0, url |-> FALSE,
              uploader_match |-> 1, title_match |-> 0, indicator_penalty |-> 0]},
            MaxEntries) :
         frame' = IF entries # <<>>
                  THEN [frame EXCEPT !.pc = "api_candidate", !.rank = 1,
                                     !.scored = SortEntries(entries, call.target_s)]
                  ELSE IF frame.prefix < Len(prefixes)
                       THEN [frame EXCEPT !.prefix = @ + 1]
                       ELSE [frame EXCEPT !.pc = "returned"]
    /\ UNCHANGED <<pipeline, call, ret, stop_event, output_file, futures,
                   failures, playlist_dir, workers, heap>>

\* lines 383-411: the event is tested; a candidate without url or with a
\* duration outside the tolerance is passed over
ApiCandidate ==
    /\ frame.pc = "api_candidate"
    /\ frame' =
         IF stop_event THEN [frame EXCEPT !.pc = "returned"]
         ELSE IF ~frame.scored[frame.rank].url THEN ApiStep(frame, "next")
         ELSE IF /\ call.target_s # 0
                 /\ frame.scored[frame.rank].has_duration
                 /\ frame.scored[frame.rank].duration # 0
                 /\ AbsDiff(frame.scored[frame.rank].duration, call.target_s)
                      > Max(5, (call.target_s * 8) \div 100)
              THEN ApiStep(frame, "next")
              ELSE [frame EXCEPT !.pc = "api_attempt", !.attempt = 1]
    /\ UNCHANGED <<pipeline, call, ret, stop_event, trace, output_file, futures,
                   failures, playlist_dir, workers, heap>>

\* lines 416-443 and 481-489: the event is tested, then the download is
\* started in a thread; building the YoutubeDL object may raise
ApiAttempt ==
    /\ frame.pc = "api_attempt"
    /\ IF stop_event
       THEN /\ frame' = [frame EXCEPT !.pc = "returned"]
            /\ UNCHANGED trace
       ELSE \E raises \in BOOLEAN :
              IF raises
              THEN /\ frame' = ApiStep(frame, "retry")
                   /\ UNCHANGED trace
              ELSE /\ frame' = [frame EXCEPT !.pc = "api_wait", !.elapsed = 0]
                   /\ trace' = Started("download")
    /\ UNCHANGED <<pipeline, call, ret, stop_event, output_file, futures,
                   failures, playlist_dir, workers, heap>>

\* lines 448-464: th.join(timeout=1) came back; the event is tested, then
\* the time
ApiWait ==
    /\ frame.pc = "api_wait"
    /\ frame' = IF stop_event THEN [frame EXCEPT !.pc = "returned"]
                ELSE IF frame.elapsed + 1 > candidate_timeout
                     THEN [frame EXCEPT !.pc = "api_check", !.elapsed = @ + 1]
                     ELSE [frame EXCEPT !.elapsed = @ + 1]
    /\ UNCHANGED <<pipeline, call, ret, stop_event, trace, output_file, futures,
                   failures, playlist_dir, workers, heap>>

\* lines 448 and 466-489: the thread is over, or no longer waited for; the
\* mp3 of more than 1024 bytes is moved to output_wav, a failing move is an
\* exception of the attempt, and no file is the end of the candidate
ApiDone ==
    /\ frame.pc \in {"api_wait", "api_check"}
    /\ \E file \in {"none", "moved", "move failed"} :
         /\ frame' = CASE file = "moved" -> [frame EXCEPT !.pc = "returned"]
                       [] file = "move failed" -> ApiStep(frame, "retry")
                       [] OTHER -> ApiStep(frame, "next")
         /\ output_file' = (output_file \/ file = "moved")
    /\ UNCHANGED <<pipeline, call, ret, stop_event, trace, futures, failures,
                   playlist_dir, workers, heap>>

DownloadNext ==
    \/ Cancel
    \/ ExeStart
    \/ ExeLaunch
    \/ ExeWait
    \/ ExeExit
    \/ AfterExe
    \/ ApiSearch
    \/ ApiCandidate
    \/ ApiAttempt
    \/ ApiWait
    \/ ApiDone

DownloadSpec == DownloadInit /\ [][DownloadNext]_vars

\* ------------------------------------------------------------------------
\* main.py: main and process_track
\* ------------------------------------------------------------------------

\* the most tracks of a playlist, and the most worker threads
MaxTracks == 2
MaxWorkers == 2

\* re.sub(r'_+', '_', s)
RECURSIVE CollapseUnderscores(_)
CollapseUnderscores(s) ==
    IF s = <<>> THEN <<>>
    ELSE IF Len(s) >= 2 /\ s[1] = "_" /\ s[2] = "_"
         THEN CollapseUnderscores(Tail(s))
         ELSE <<Head(s)>> \o CollapseUnderscores(Tail(s))

\* utils.sanitize_filename: the reserved characters become "_", runs of "_"
\* become one, and the name is stripped
sanitize_filename(name) ==
    Strip(CollapseUnderscores(
        [i \in 1..Len(name) |->
            IF name[i] \in {"<", ">", ":", "\"", "/", "\\", "|", "?", "*"}
            THEN "_" ELSE name[i]]))

\* process_track: outfilename, for a track_number below 100
outfilename(t) ==
    sanitize_filename(
        <<<<"0","1","2","3","4","5","6","7","8","9">>[(t.track_number \div 10) + 1],
          <<"0","1","2","3","4","5","6","7","8","9">>[(t.track_number % 10) + 1]>>
        \o <<" ", "-", " ">> \o t.artist \o <<" ", "-", " ">> \o t.title)
    \o <<".", "m", "p", "3">>

\* process_track, lines 287-298: the files of more than 1024 bytes whose
\* name contains search_key
Existing(t, dir) ==
    {f \in dir :
        /\ Contains(Lower(f.name),
                    Lower(sanitize_filename(t.artist \o <<" ", "-", " ">> \o t.title)))
        /\ f.valid}

\* the tracks of a playlist, numbered as fetch_playlist numbers them
Playlists ==
    {[i \in 1..Len(titles) |->
        [track_number |-> i, artist |-> Artist, title |-> titles[i]]] :
            titles \in DistinctSeqs({Song, SongRemix, <<"S","o","n","g","?">>},
                                    MaxTracks) \ {<<>>}}

\* a future: not yet started, in process_track past the test for an
\* existing file, finished with the value or exception of process_track,
\* taken by the loop of main, or cancelled
Future(state, ok, info, existing) ==
    [state |-> state, ok |-> ok, info |-> info, existing |-> existing]

\* the loop of main without its handler for a future that raised
RecordFailureOfReturned(fs, tn, fut) ==
    IF ~fut.ok /\ fut.info # "raised" THEN Append(fs, [tn |-> tn, info |-> fut.info])
    ELSE fs

\* main, lines 422-432: what the loop appends to failures for a future
RecordFailure(fs, tn, fut) ==
    IF fut.info = "raised" THEN Append(fs, [tn |-> 0, info |-> fut.info])
    ELSE IF ~fut.ok THEN Append(fs, [tn |-> tn, info |-> fut.info])
    ELSE fs

BatchInit ==
    /\ Idle
    /\ call \in {[fn |-> "main", tracks |-> tracks, workers |-> w, force |-> force] :
                    tracks \in Playlists, w \in 1..MaxWorkers, force \in BOOLEAN}
    /\ stop_event = FALSE
    /\ futures = [i \in 1..Len(call.tracks) |-> Future("pending", FALSE, "", <<>>)]
    /\ failures = <<>>
    /\ playlist_dir \in
         {dir \in SUBSET {[name |-> outfilename(call.tracks[i]), valid |-> v] :
                             i \in 1..Len(call.tracks), v \in BOOLEAN} :
             \A f, g \in dir : f.name = g.name => f = g}
    /\ DownloadAtRest
    /\ PoolAtRest

\* a worker thread takes the next future and runs process_track up to the
\* test for an existing file (lines 273-301); os.listdir may raise
Begin ==
    \E i \in DOMAIN futures :
        /\ futures[i].state = "pending"
        /\ \A j \in 1..(i - 1) : futures[j].state # "pending"
        /\ Cardinality({j \in DOMAIN futures : futures[j].state = "running"})
             < call.workers
        /\ \E listdir_raises \in (IF call.force \/ stop_event THEN {FALSE} ELSE BOOLEAN),
              found \in (IF call.force \/ stop_event THEN {<<>>}
                         ELSE IF Existing(call.tracks[i], playlist_dir) = {}
                         THEN {<<>>}
                         ELSE {f.name : f \in Existing(call.tracks[i], playlist_dir)}) :
             futures' = [futures EXCEPT ![i] =
                 IF stop_event THEN Future("finished", FALSE, "KeyboardInterrupt", <<>>)
                 ELSE IF listdir_raises THEN Future("finished", FALSE, "raised", <<>>)
                 ELSE IF found # <<>> THEN Future("finished", TRUE, "skipped", found)
                 ELSE Future("running", FALSE, "", <<>>)]
        /\ UNCHANGED <<pipeline, call, ret, stop_event, frame, trace, output_file,
                       failures, playlist_dir, workers, heap>>

\* process_track, lines 303-349: download_audio is called with the keywords
\* artist, title, isrc and album, which it does not take (downloader.py
\* 8-18): the call raises TypeError, if process_cover has not raised before;
\* the handler removes the mp3 of the track and returns the failure
Work ==
    \E i \in DOMAIN futures :
        /\ futures[i].state = "running"
        /\ futures' = [futures EXCEPT ![i] = Future("finished", FALSE, "error", <<>>)]
        /\ playlist_dir' = {f \in playlist_dir : f.name # outfilename(call.tracks[i])}
        /\ UNCHANGED <<pipeline, call, ret, stop_event, frame, trace, output_file,
                       failures, workers, heap>>

\* main, lines 421-438: the loop takes a finished future
Handle ==
    \E i \in DOMAIN futures :
        /\ ret = NoRet
        /\ futures[i].state = "finished"
        /\ futures' = [futures EXCEPT ![i].state = "handled"]
        /\ failures' = RecordFailure(failures, i, futures[i])
        /\ UNCHANGED <<pipeline, call, ret, stop_event, frame, trace, output_file,
                       playlist_dir, workers, heap>>

\* main, lines 439-441: KeyboardInterrupt in the loop sets the event
Interrupt ==
    /\ ret = NoRet
    /\ \E i \in DOMAIN futures : futures[i].state # "handled"
    /\ stop_event' = TRUE
    /\ ret' = [returned |-> TRUE, interrupted |-> TRUE]
    /\ UNCHANGED <<pipeline, call, frame, trace, output_file, futures, failures,
                   playlist_dir, workers, heap>>

\* main, lines 442-445: the futures not yet started are cancelled
CancelFuture ==
    \E i \in DOMAIN futures :
        /\ ret # NoRet
        /\ ret.interrupted
        /\ futures[i].state = "pending"
        /\ futures' = [futures EXCEPT ![i].state = "cancelled"]
        /\ UNCHANGED <<pipeline, call, ret, stop_event, frame, trace, output_file,
                       failures, playlist_dir, workers, heap>>

\* main, lines 447-495: after the loop the successes are counted and the
\* mp3 files are moved to the folder of the playlist, which is
\* output/playlist itself for a playlist of that name
Summary ==
    /\ ret = NoRet
    /\ \A i \in DOMAIN futures : futures[i].state = "handled"
    /\ ret' = [returned |-> TRUE, interrupted |-> FALSE,
               total_tracks |-> Len(call.tracks),
               successful_tracks |-> Len(call.tracks) - Len(failures)]
    /\ \E same_folder \in BOOLEAN :
         playlist_dir' = IF same_folder THEN playlist_dir ELSE {}
    /\ UNCHANGED <<pipeline, call, stop_event, frame, trace, output_file, futures,
                   failures, workers, heap>>

BatchNext ==
    \/ Begin
    \/ Work
    \/ Handle
    \/ Interrupt
    \/ CancelFuture
    \/ Summary

BatchSpec == BatchInit /\ [][BatchNext]_vars

\* ------------------------------------------------------------------------
\* Concurrent calls of smart_resolve_track
\* ------------------------------------------------------------------------

\* resolve_by_isrc, STEPS 4 and 5 for the result of STEP 3: the collision
\* check and the probe, and the resolution without the identifier
CheckedResult(metadata, first, client, confidence_threshold, services) ==
    IF first = None THEN None
    ELSE IF /\ ~IsCollision(
                  isrc_calculate_title_similarity(metadata.title, first.title),
                  isrc_calculate_artist_similarity(metadata.artist, first.artists))
            /\ first.video_id # <<>>
            /\ validate_video_id(services.probe)
         THEN first
         ELSE resolve_track(client, fallback_track(metadata), confidence_threshold,
                            SearchAnswer(FALSE, services.isrc_index),
                            SearchAnswer(FALSE, services.query_index))

\* AntigravityISRCResolver.resolve_by_isrc as a function of what the
\* services answer, for a resolver object with the given threshold
resolve_by_isrc(isrc, client, confidence_threshold, services) ==
    LET metadata == get_isrc_metadata(isrc, [raises |-> FALSE,
                                             items |-> services.spotify_index])
    IN IF metadata = None THEN None
       ELSE CheckedResult(metadata,
                          resolve_track(client, metadata, confidence_threshold,
                                        SearchAnswer(FALSE, services.isrc_index),
                                        SearchAnswer(FALSE, services.query_index)),
                          client, confidence_threshold, services)

\* smart_resolve_track for one track alone
smart_resolve_track(a_track, spotify, client, services) ==
    IF /\ UseIsrcFirst(a_track.isrc, spotify)
       /\ resolve_by_isrc(a_track.isrc, client, IsrcThreshold, services) # None
    THEN resolve_by_isrc(a_track.isrc, client, IsrcThreshold, services)
    ELSE resolve_with_ytmusic(client, a_track, OperationalThreshold,
                              SearchAnswer(FALSE, services.isrc_index),
                              SearchAnswer(FALSE, services.query_index))

\* one resolver object for all calls
InstanceShared(w, role) == <<0, "shared">>

\* the resolver object a call constructs for a role is its own
Instance(w, role) == <<w, role>>

\* the answers of the services, which are healthy and do not change
Services ==
    [spotify_index |-> spotify_index, isrc_index |-> yt_isrc_index,
     query_index |-> yt_query_index, probe |-> call.probe]

\* a worker thread is free for the call of worker w
Free(w) ==
    /\ workers[w].pc = "submitted"
    /\ \A v \in 1..(w - 1) : workers[v].pc # "submitted"
    /\ Cardinality({v \in DOMAIN workers :
                       workers[v].pc \notin {"submitted", "done"}}) < call.workers

PoolInit ==
    /\ pc = "direct"
    /\ track = CHOOSE t \in Tracks : TRUE
    /\ has_spotify \in BOOLEAN
    /\ ytmusic = TRUE
    /\ spotify_index \in DistinctSeqs(SpotifyItems, 1)
    /\ yt_isrc_index \in DistinctSeqs(IsrcRawResults, MaxIsrcHits)
    /\ yt_query_index \in DistinctSeqs(RawResults, MaxHits)
    /\ isrc_metadata = None
    /\ result = None
    /\ verdict = "none"
    /\ isrc_result = None
    /\ outcome = NoRet
    /\ attempts = <<>>
    /\ calls = [lookup |-> 0, collision_check |-> 0, probe |-> 0]
    /\ raised = {}
    /\ call \in {[fn |-> "smart_resolve_track", tracks |-> tracks,
                  workers |-> n, probe |-> probe] :
                    tracks \in {ts \in DistinctSeqs(Tracks, 2) : Len(ts) = 2},
                    n \in 1..MaxWorkers,
                    probe \in {"accessible", "no_tracks"}}
    /\ ret = NoRet
    /\ stop_event = FALSE
    /\ DownloadAtRest
    /\ BatchAtRest
    /\ workers = [w \in 1..2 |-> [pc |-> "submitted", outcome |-> NoRet]]
    /\ heap = <<>>

\* smart_resolve_track, line 92: SmartResolver() reads the configuration and
\* constructs the identifier resolver with its YTMusicResolver(0.75); then
\* the test of STEP 1
Construct ==
    \E w \in DOMAIN workers :
        /\ Free(w)
        /\ heap' = IF has_spotify
                   THEN [id \in DOMAIN heap \cup {Instance(w, "isrc")} |->
                            IF id = Instance(w, "isrc")
                            THEN [confidence_threshold |-> IsrcThreshold]
                            ELSE heap[id]]
                   ELSE heap
        /\ workers' = [workers EXCEPT ![w].pc =
                          IF UseIsrcFirst(call.tracks[w].isrc, has_spotify)
                          THEN "step1" ELSE "step2"]
        /\ UNCHANGED <<pipeline, call, ret, stop_event, frame, trace, output_file,
                       futures, failures, playlist_dir>>

\* resolve_track, STEP 1: resolve_by_isrc with the resolver of the call
IsrcFirst ==
    \E w \in DOMAIN workers :
        /\ workers[w].pc = "step1"
        /\ \E value \in {resolve_by_isrc(
                            call.tracks[w].isrc, ytmusic,
                            heap[Instance(w, "isrc")].confidence_threshold,
                            Services)} :
             workers' = [workers EXCEPT ![w] =
                            IF value # None THEN [pc |-> "done", outcome |-> value]
                            ELSE [pc |-> "step2", outcome |-> NoRet]]
        /\ UNCHANGED <<pipeline, call, ret, stop_event, frame, trace, output_file,
                       futures, failures, playlist_dir, heap>>

\* resolve_with_ytmusic, line 244: a YTMusicResolver(0.50) is constructed
MetadataConstruct ==
    \E w \in DOMAIN workers :
        /\ workers[w].pc = "step2"
        /\ heap' = [id \in DOMAIN heap \cup {Instance(w, "metadata")} |->
                       IF id = Instance(w, "metadata")
                       THEN [confidence_threshold |-> OperationalThreshold]
                       ELSE heap[id]]
        /\ workers' = [workers EXCEPT ![w].pc = "resolve"]
        /\ UNCHANGED <<pipeline, call, ret, stop_event, frame, trace, output_file,
                       futures, failures, playlist_dir>>

\* resolve_with_ytmusic, line 245: the track is resolved with that resolver
\* and the value is returned by resolve_track and smart_resolve_track
MetadataResolve ==
    \E w \in DOMAIN workers :
        /\ workers[w].pc = "resolve"
        /\ workers' = [workers EXCEPT ![w] =
              [pc |-> "done",
               outcome |-> resolve_with_ytmusic(
                              ytmusic, call.tracks[w],
                              heap[Instance(w, "metadata")].confidence_threshold,
                              SearchAnswer(FALSE, yt_isrc_index),
                              SearchAnswer(FALSE, yt_query_index))]]
        /\ UNCHANGED <<pipeline, call, ret, stop_event, frame, trace, output_file,
                       futures, failures, playlist_dir, heap>>

PoolNext ==
    \/ Construct
    \/ IsrcFirst
    \/ MetadataConstruct
    \/ MetadataResolve

PoolSpec == PoolInit /\ [][PoolNext]_vars

\* ------------------------------------------------------------------------
\* ytmusic_search.py: YTMusicSearcher
\* ------------------------------------------------------------------------

\* the words in a title for which search_track leaves a result out
non_song_indicators ==
    << <<"o","f","f","i","c","i","a","l"," ","v","i","d","e","o">>,
       <<"m","u","s","i","c"," ","v","i","d","e","o">>,
       <<"m","v">>,
       <<"v","i","d","e","o"," ","c","l","i","p">>,
       <<"l","i","v","e"," ","p","e","r","f","o","r","m","a","n","c","e">>,
       <<"l","i","v","e"," ","a","t">>,
       <<"c","o","n","c","e","r","t">>,
       <<"r","e","m","i","x">>,
       <<"i","n","s","t","r","u","m","e","n","t","a","l">>,
       <<"k","a","r","a","o","k","e">>,
       <<"c","o","v","e","r">>,
       <<"a","c","o","u","s","t","i","c">>,
       <<"b","e","h","i","n","d"," ","t","h","e"," ","s","c","e","n","e","s">>,
       <<"m","a","k","i","n","g"," ","o","f">>,
       <<"i","n","t","e","r","v","i","e","w">> >>

\* the words _process_search_result charges for when the target lacks them
unwanted_indicators ==
    << <<"l","i","v","e">>,
       <<"r","e","m","i","x">>,
       <<"c","o","v","e","r">>,
       <<"a","c","o","u","s","t","i","c">>,
       <<"k","a","r","a","o","k","e">>,
       <<"i","n","s","t","r","u","m","e","n","t","a","l">>,
       <<"r","e","m","a","s","t","e","r","e","d">>,
       <<"v","e","r","s","i","o","n">>,
       <<"e","d","i","t">> >>

\* any(indicator in title_lower for indicator in indicators)
HasIndicator(title_lower, indicators) ==
    \E n \in 1..Len(indicators) : Contains(title_lower, indicators[n])

\* len(s.split())
RECURSIVE WordCount(_)
WordCount(s) ==
    LET t == LStrip(s) IN
    IF t = <<>> THEN 0
    ELSE IF \E i \in 1..Len(t) : IsSpace(t[i])
         THEN 1 + WordCount(Drop(t, CHOOSE i \in 1..Len(t) :
                                       /\ IsSpace(t[i])
                                       /\ \A j \in 1..(i - 1) : ~IsSpace(t[j])))
         ELSE 1

\* len(common_words), the numerator of the title match ratio; its
\* denominator is len(title_words)
CommonWords(target_title, title) ==
    Cardinality(WordSet(target_title) \cap WordSet(title))

\* any(target_artist in artist.lower() for artist in artists)
ArtistMatch(target_artist, artists) ==
    \E n \in 1..Len(artists) : Contains(Lower(artists[n]), target_artist)

\* the duration term of the score, both durations in thousandths of a second
DurationTerm(target_duration, duration) ==
    IF target_duration # 0 /\ duration # 0
    THEN IF AbsDiff(duration, target_duration) <= 1 * Second THEN 0 - 2000
         ELSE IF AbsDiff(duration, target_duration) <= 2 * Second THEN 0 - 1000
         ELSE IF AbsDiff(duration, target_duration) <= 5 * Second THEN 0 - 500
         ELSE IF AbsDiff(duration, target_duration) > 10 * Second THEN 2000
         ELSE 1000
    ELSE IF target_duration # 0 /\ duration = 0 THEN 1500
    ELSE 0

\* the title terms of the score, for c common words of n target words
TitleTerm(c, n) ==
    IF n = 0 THEN 0
    ELSE (IF 10 * c > 8 * n THEN 0 - 300
          ELSE IF 10 * c > 5 * n THEN 0 - 100 ELSE 200)
         + (IF 10 * c < 7 * n THEN 500
            ELSE IF 10 * c < 9 * n THEN 200 ELSE 0)

\* the artist terms of the score
ArtistTerm(target_artist, artists) ==
    (IF ArtistMatch(target_artist, artists) THEN 0 - 200 ELSE 300)
    + (IF target_artist = <<>> THEN 0
       ELSE IF ~ArtistMatch(target_artist, artists) THEN 400
       ELSE IF ~\E n \in 1..Len(artists) : Lower(artists[n]) = target_artist
            THEN 100 ELSE 0)

\* the score of _process_search_result for a result of ytmusic.search,
\* which carries no isrc_match
MatchScore(yt_result, target_track) ==
    (IF /\ target_track.isrc # <<>>
        /\ yt_result.isrc # <<>>
        /\ Lower(target_track.isrc) = Lower(yt_result.isrc)
     THEN 0 - 10000 ELSE 0)
    + DurationTerm(target_track.duration_ms, yt_result.duration_seconds)
    + TitleTerm(CommonWords(Lower(target_track.title), Lower(yt_result.title)),
                Cardinality(WordSet(Lower(target_track.title))))
    + ArtistTerm(Lower(target_track.artist), Names(yt_result.artists))
    + (IF /\ target_track.album # <<>>
          /\ yt_result.album # <<>>
          /\ \/ Contains(Lower(yt_result.album), Lower(target_track.album))
             \/ Contains(Lower(target_track.album), Lower(yt_result.album))
       THEN 0 - 100 ELSE 0)
    + 300 * Cardinality({n \in 1..Len(unwanted_indicators) :
                           /\ Contains(Lower(yt_result.title), unwanted_indicators[n])
                           /\ ~Contains(Lower(target_track.title),
                                        unwanted_indicators[n])})

\* the final validation of _process_search_result
Rejected(yt_result, target_track, c, n) ==
    /\ n # 0
    /\ \/ 10 * c < 5 * n
       \/ /\ target_track.duration_ms # 0
          /\ yt_result.duration_seconds # 0
          /\ AbsDiff(yt_result.duration_seconds, target_track.duration_ms)
                > 30 * Second
       \/ /\ WordCount(Lower(target_track.title)) = 1
          /\ Strip(Lower(target_track.title)) # Strip(Lower(yt_result.title))
          /\ 10 * c < 7 * n

\* _process_search_result
process_search_result(yt_result, target_track) ==
    IF Rejected(yt_result, target_track,
                CommonWords(Lower(target_track.title), Lower(yt_result.title)),
                Cardinality(WordSet(Lower(target_track.title))))
    THEN None
    ELSE [video_id |-> yt_result.videoId,
          title    |-> yt_result.title,
          artists  |-> Names(yt_result.artists),
          album    |-> yt_result.album,
          duration |-> yt_result.duration_seconds,
          isrc     |-> yt_result.isrc,
          score    |-> MatchScore(yt_result, target_track),
          url      |-> IF yt_result.videoId # <<>>
                       THEN <<"https://music.youtube.com/watch?v=">>
                            \o yt_result.videoId
                       ELSE <<>>,
          isrc_match |-> FALSE]

\* the loop of search_track over the results of the identifier search
RECURSIVE IsrcResults(_, _)
IsrcResults(results, target_track) ==
    IF results = <<>> THEN <<>>
    ELSE (IF /\ Head(results).resultType = "song"
             /\ ~HasIndicator(Lower(Head(results).title), non_song_indicators)
             /\ Head(results).artists # <<>>
             /\ process_search_result(Head(results), target_track) # None
          THEN <<[process_search_result(Head(results), target_track)
                    EXCEPT !.score = 0 - 50000, !.isrc_match = TRUE]>>
          ELSE <<>>)
         \o IsrcResults(Tail(results), target_track)

\* the loop of search_track over the results of the query search
RECURSIVE QueryResults(_, _)
QueryResults(results, target_track) ==
    IF results = <<>> THEN <<>>
    ELSE (IF /\ Head(results).resultType = "song"
             /\ Head(results).videoId # <<>>
             /\ Head(results).title # <<>>
             /\ Head(results).duration_seconds # 0
             /\ ~HasIndicator(Lower(Head(results).title), non_song_indicators)
             /\ Head(results).artists # <<>>
             /\ process_search_result(Head(results), target_track) # None
          THEN <<process_search_result(Head(results), target_track)>>
          ELSE <<>>)
         \o QueryResults(Tail(results), target_track)

\* list.sort(key=score) is stable: x goes behind every element whose score
\* is at most its own
RECURSIVE InsertAsc(_, _)
InsertAsc(sorted, x) ==
    IF sorted = <<>> THEN <<x>>
    ELSE IF Head(sorted).score <= x.score
         THEN <<Head(sorted)>> \o InsertAsc(Tail(sorted), x)
         ELSE <<x>> \o sorted

RECURSIVE SortByScore(_)
SortByScore(s) ==
    IF s = <<>> THEN <<>>
    ELSE InsertAsc(SortByScore(SubSeq(s, 1, Len(s) - 1)), s[Len(s)])

\* YTMusicSearcher.search_track: the results of the identifier search when
\* it leaves any, else the sorted results of the query search
search_track(client, target_track, isrc_answer, query_answer) ==
    IF ~client THEN <<>>
    ELSE IF /\ Strip(target_track.isrc) # <<>>
            /\ ~isrc_answer.raises
            /\ IsrcResults(isrc_answer.results, target_track) # <<>>
         THEN IsrcResults(isrc_answer.results, target_track)
    ELSE IF query_answer.raises THEN <<>>
    ELSE SortByScore(QueryResults(query_answer.results, target_track))

\* results of ytmusic.search as search_track may get them: two songs of the
\* track, one of them three seconds longer, a song without videoId, a
\* result without title, a remix, a song of another title, and a video
MatchResults ==
    {RawResult(<<"v","1">>, Song, Isrc1),
     [RawResult(<<"v","2">>, Song, <<>>) EXCEPT !.duration_seconds = 203 * Second],
     RawResult(<<>>, Song, Isrc1),
     RawResult(<<"v","6">>, <<>>, <<>>),
     RawResult(<<"v","3">>, SongRemix, <<>>),
     RawResult(<<"v","4">>, OtherTitle, Isrc1),
     [RawResult(<<"v","7">>, Song, <<>>) EXCEPT !.resultType = "video"]}

MatchInit ==
    /\ Idle
    /\ stop_event = FALSE
    /\ DownloadAtRest
    /\ BatchAtRest
    /\ PoolAtRest
    /\ call \in {[fn |-> "search_track", client |-> client, target |-> t,
                  isrc_answer |-> SearchAnswer(isrc_raises, isrc_results),
                  query_answer |-> SearchAnswer(query_raises, query_results)] :
                    client \in BOOLEAN, t \in Tracks,
                    isrc_raises \in BOOLEAN, query_raises \in BOOLEAN,
                    isrc_results \in DistinctSeqs(MatchResults, MaxIsrcHits),
                    query_results \in DistinctSeqs(MatchResults, MaxHits)}

\* a call of YTMusicSearcher.search_track
SearchTrack ==
    /\ call.fn = "search_track"
    /\ ret = NoRet
    /\ ret' = [returned |-> TRUE,
               results |-> search_track(call.client, call.target,
                                        call.isrc_answer, call.query_answer)]
    /\ UNCHANGED <<pc, env, isrc_metadata, result, verdict, isrc_result, outcome,
                   attempts, calls, raised, call>>

MatchNext == SearchTrack

MatchSpec == MatchInit /\ [][MatchNext]_vars

\* ------------------------------------------------------------------------
\* Properties
\* ------------------------------------------------------------------------

\* C1: the ranker returns None or a candidate whose confidence is at least
\* the threshold it was configured with.
RankerRespectsThreshold ==
    ret # NoRet =>
        \/ ret = None
        \/ ret.resolved /\ ret.confidence >= call.threshold

\* the ranker returned a candidate under the strictest threshold
RankerAccepted ==
    /\ ret # NoRet
    /\ ret # None
    /\ call.threshold = Points(85)
    /\ Len(call.candidates) = 2

\* how far a run has come
Progress(position) ==
    CASE position = "start"        -> 0
      [] position = "lookup"       -> 1
      [] position = "isrc_resolve" -> 2
      [] position = "collision"    -> 3
      [] position = "validate"     -> 4
      [] position = "fallback"     -> 5
      [] position = "metadata"     -> 6
      [] position = "done"         -> 7
      [] OTHER                     -> -1

\* C2: whatever the external calls do, a run ends by returning a candidate
\* with its confidence or None, and no exception leaves it: every step takes
\* the run further towards its end (so it has at most seven steps), no step
\* leaves it in a raised exception, and what the last step returns is None
\* or a resolved candidate with a confidence.
PipelineTerminates ==
    [][/\ Progress(pc') > Progress(pc)
       /\ pc' # "raised"
       /\ pc' = "done" =>
             \/ outcome' = None
             \/ outcome'.resolved /\ outcome'.confidence > 0]_vars

\* a run has ended unresolved although both searches and the probe raised
EndedDespiteFailures ==
    /\ pc = "done"
    /\ outcome = None
    /\ raised = {"isrc_search", "query_search", "probe"}

\* the two similarities of the collision check, against the authoritative
\* metadata of the lookup
TitleMatches ==
    10 * isrc_calculate_title_similarity(isrc_metadata.title, result.title)
        >= 5 * SimOne

ArtistMatches ==
    10 * isrc_calculate_artist_similarity(isrc_metadata.artist, result.artists)
        >= 7 * SimOne

\* the site of the i-th attempt of the run
HasAttempt(site) == \E i \in 1..Len(attempts) : attempts[i].site = site

\* C3: the result of the identifier path goes on to the probe, and is
\* returned, only with title similarity >= 0.5 and artist similarity >= 0.7
\* to the authoritative metadata; with either below its bound it is
\* rejected and the metadata fallback is attempted next.
CollisionCheckGuards ==
    /\ verdict \in {"verified", "accessible", "dead"} => TitleMatches /\ ArtistMatches
    /\ verdict = "accessible" => outcome = result
    /\ verdict = "collision" =>
          /\ ~(TitleMatches /\ ArtistMatches)
          /\ outcome # result \/ HasAttempt("fallback")
          /\ pc = "fallback" \/ HasAttempt("fallback")

\* a collision was detected on a title that differs from the authoritative one
\* while the artist matches, and the fallback has run
CollisionFellBack ==
    /\ verdict = "collision"
    /\ ArtistMatches
    /\ HasAttempt("fallback")
    /\ pc = "done"

\* C4: a candidate rejected on the identifier path, by the collision check
\* or by the probe, is not the candidate the run returns.
RejectedNeverReturned ==
    (/\ pc = "done"
     /\ verdict \in {"collision", "dead"}
     /\ outcome # None)
    => outcome.video_id # result.video_id

\* C5: once the identifier-path resolution has collided or produced no
\* candidate, every later attempt of the run has a target without
\* identifier and issues no identifier search.
LaterAttemptsWithoutIdentifier ==
    \A i \in 2..Len(attempts) :
        (/\ attempts[1].site = "isrc"
         /\ attempts[1].video_id = <<>> \/ verdict = "collision")
        => /\ attempts[i].isrc = <<>>
           /\ \A k \in 1..Len(attempts[i].searches) :
                 attempts[i].searches[k] # "isrc_search"

\* the attempts of the run that are a metadata search-and-rank stage
MetadataStages ==
    {i \in 1..Len(attempts) : attempts[i].site \in {"fallback", "metadata"}}

\* C6, as stated: the metadata search-and-rank stage runs at most once, and
\* when it yields no candidate the run ends without another attempt.
NoSecondMetadataStage ==
    /\ Cardinality(MetadataStages) <= 1
    /\ \A i \in MetadataStages :
          attempts[i].video_id = <<>> => i = Len(attempts) /\ pc = "done"

\* the order of the three attempts of a run
SiteOrder(site) ==
    CASE site = "isrc"     -> 1
      [] site = "fallback" -> 2
      [] site = "metadata" -> 3

\* C6, amended: no attempt is repeated.  The identifier-path resolution,
\* its fallback without identifier (threshold 0.75) and the operational
\* resolution (threshold 0.50) each run at most once, in this order; the
\* lookup, the collision check and the probe run at most once; and the
\* operational resolution is the last attempt: after it the run has ended.
NoAttemptRepeated ==
    /\ \A i, j \in 1..Len(attempts) :
          i < j => SiteOrder(attempts[i].site) < SiteOrder(attempts[j].site)
    /\ \A i \in 1..Len(attempts) :
          attempts[i].site = "metadata" => i = Len(attempts) /\ pc = "done"
    /\ calls.lookup <= 1 /\ calls.collision_check <= 1 /\ calls.probe <= 1

\* a run made all three attempts and ended unresolved
ThreeAttemptsUnresolved ==
    /\ pc = "done"
    /\ Len(attempts) = 3
    /\ outcome = None

\* C7: for a track without identifier the run makes no lookup, no
\* identifier search, no collision check and no probe; its only attempt is
\* the operational resolution, which issues at most the free-text search.
NoIdentifierSkipsIdentifierPath ==
    track.isrc = <<>> =>
        /\ calls.lookup = 0 /\ calls.collision_check = 0 /\ calls.probe = 0
        /\ pc \in {"start", "metadata", "done"}
        /\ \A i \in 1..Len(attempts) :
              /\ attempts[i].site = "metadata"
              /\ attempts[i].searches \in {<<>>, <<"query_search">>}
        /\ pc = "done" => Len(attempts) = 1

\* a track without identifier was resolved by the free-text search although
\* the identifier service was available
ResolvedWithoutIdentifier ==
    /\ track.isrc = <<>>
    /\ has_spotify
    /\ pc = "done"
    /\ outcome # None
    /\ attempts[1].searches = <<"query_search">>

\* C8: what resolve_by_isrc returns has confidence >= 0.75, its fallback
\* included, and what the run returns has confidence >= 0.50.
ThresholdInvariant ==
    /\ isrc_result # None => isrc_result.confidence >= Points(75)
    /\ outcome \notin {NoRet, None} => outcome.confidence >= Points(50)

\* resolve_by_isrc returned the result of its fallback
FallbackResultReturned ==
    /\ pc = "done"
    /\ verdict \in {"collision", "dead"}
    /\ isrc_result # None
    /\ outcome = isrc_result

\* every result of the free-text search is the title followed by
\* " (Remix)" or by " (Live)"
RemixOrLiveOnly(index, title) ==
    /\ index # <<>>
    /\ \A i \in 1..Len(index) :
          \/ index[i].title = title \o <<" ","(","R","e","m","i","x",")">>
          \/ index[i].title = title \o <<" ","(","L","i","v","e",")">>

\* C9: a track without identifier whose free-text search returns only
\* "(Remix)" and "(Live)" versions of its title ends unresolved.
RemixAndLiveUnresolved ==
    (/\ pc = "done"
     /\ track.isrc = <<>>
     /\ RemixOrLiveOnly(yt_query_index, track.title)
     /\ attempts[1].searches = <<"query_search">>
     /\ raised = {})
    => outcome = None

\* the search result with the identifier, title, artist and duration of
\* the track
IsIdentical(r, t) ==
    /\ r.isrc = t.isrc
    /\ r.title = t.title
    /\ r.artists = <<t.artist>>
    /\ r.duration_seconds = t.duration_ms

\* C10: with an identifier, a lookup that returns the metadata of the
\* track, a playable probe and a search that returns the one identical
\* candidate, the run returns that candidate with confidence >= 0.95.
EndToEndAccept ==
    (/\ pc = "done"
     /\ track.isrc # <<>>
     /\ has_spotify /\ ytmusic
     /\ raised = {}
     /\ isrc_metadata = track
     /\ Len(yt_query_index) = 1
     /\ IsIdentical(yt_query_index[1], track)
     /\ yt_isrc_index \in {<<>>, yt_query_index}
     /\ verdict # "dead")
    => /\ outcome # None
       /\ outcome.video_id = yt_query_index[1].videoId
       /\ outcome.confidence >= Points(95)


\* C11: the candidate list handed to the ranker holds each video id at most
\* once, and an id the identifier search returned is held by its
\* identifier-search entry.
OneEntryPerVideoIdentifierFirst ==
    \A i \in 1..Len(attempts) :
        /\ \A j, k \in 1..Len(attempts[i].candidates) :
               j # k => attempts[i].candidates[j].video_id
                        # attempts[i].candidates[k].video_id
        /\ \A j \in 1..Len(attempts[i].candidates) :
               attempts[i].candidates[j].video_id \in attempts[i].isrc_ids
                   => attempts[i].candidates[j].source = "isrc_search"


\* C12: every candidate of the list handed to the ranker has a video id
\* and a title; a search result lacking either is not in the list.
CandidatesHaveIdAndTitle ==
    call.fn = "collect" /\ ret # NoRet =>
        \A i \in 1..Len(ret.candidates) :
            /\ ret.candidates[i].video_id # <<>>
            /\ ret.candidates[i].title # <<>>

\* a search returned a result without videoId or without title next to a
\* complete one, and the list holds a candidate
IncompleteResultDropped ==
    /\ call.fn = "collect" /\ ret # NoRet
    /\ ~call.query_answer.raises
    /\ \E i \in 1..Len(call.query_answer.results) :
          \/ call.query_answer.results[i].videoId = <<>>
          \/ call.query_answer.results[i].title = <<>>
    /\ Len(ret.candidates) = 1


\* the positions of the candidates that keep a confidence above 0
Positive(target, candidates) ==
    {i \in 1..Len(candidates) : Confidence(target, candidates[i]) > 0}

\* the position of the candidate of maximal confidence, the earliest among
\* equals
Earliest(target, candidates, positive) ==
    CHOOSE i \in positive :
        \A j \in positive :
            \/ Confidence(target, candidates[i]) > Confidence(target, candidates[j])
            \/ /\ Confidence(target, candidates[i]) = Confidence(target, candidates[j])
               /\ i <= j

\* the candidate at a position, if its confidence meets the threshold
AcceptedAt(target, candidates, position, confidence_threshold) ==
    IF Confidence(target, candidates[position]) >= confidence_threshold
    THEN [resolved   |-> TRUE,
          candidate  |-> candidates[position],
          confidence |-> Confidence(target, candidates[position])]
    ELSE None

\* the reference ranker
ReferenceRanker(target, candidates, confidence_threshold) ==
    IF Positive(target, candidates) = {} THEN None
    ELSE AcceptedAt(target, candidates,
                    Earliest(target, candidates, Positive(target, candidates)),
                    confidence_threshold)

\* C13: resolve returns what the reference ranker returns: nothing when no
\* candidate keeps a confidence above 0 (an empty list included), and
\* otherwise the candidate of maximal confidence, the earliest of the input
\* among equals, if and only if its confidence is at least the threshold.
RankerEqualsReference ==
    call.fn = "resolve" /\ ret # NoRet =>
        ret = ReferenceRanker(call.target, call.candidates, call.threshold)

\* two candidates of equal confidence, the first of them returned
TieReturnsEarliest ==
    /\ call.fn = "resolve" /\ ret # NoRet /\ ret # None
    /\ Len(call.candidates) = 2
    /\ Confidence(call.target, call.candidates[1])
         = Confidence(call.target, call.candidates[2])
    /\ ret.candidate = call.candidates[1]

\* the tiers of the unwanted-content penalty: points and indicators
Tiers == <<
    [points |-> 50,
     indicators |-> {<<"o","f","f","i","c","i","a","l"," ","v","i","d","e","o">>,
                     <<"m","u","s","i","c"," ","v","i","d","e","o">>,
                     <<"m","v">>,
                     <<"o","f","f","i","c","i","a","l"," ","m","v">>}],
    [points |-> 40,
     indicators |-> {<<"v","i","d","e","o"," ","c","l","i","p">>,
                     <<"c","l","i","p">>,
                     <<"v","i","s","u","a","l">>,
                     <<"v","i","s","u","a","l","i","z","e","r">>}],
    [points |-> 30,
     indicators |-> {<<"r","e","m","i","x">>,
                     <<"l","i","v","e">>,
                     <<"s","l","o","w","e","d">>}],
    [points |-> 25,
     indicators |-> {<<"l","y","r","i","c"," ","v","i","d","e","o">>,
                     <<"l","y","r","i","c","s"," ","v","i","d","e","o">>,
                     <<"a","n","i","m","a","t","e","d">>}],
    [points |-> 20,
     indicators |-> {<<"a","c","o","u","s","t","i","c">>,
                     <<"i","n","s","t","r","u","m","e","n","t","a","l">>,
                     <<"c","o","v","e","r">>,
                     <<"k","a","r","a","o","k","e">>}],
    [points |-> 15,
     indicators |-> {<<"c","o","n","c","e","r","t">>,
                     <<"p","e","r","f","o","r","m">>,
                     <<"t","o","u","r">>,
                     <<"8","d">>,
                     <<"8","d"," ","a","u","d","i","o">>}] >>

\* the penalty as stated: every matched indicator adds the points of its
\* tier
RECURSIVE StatedPenaltyFrom(_, _)
StatedPenaltyFrom(title, i) ==
    IF i > Len(Tiers) THEN 0
    ELSE Tiers[i].points
           * Cardinality({x \in Tiers[i].indicators : Contains(Lower(title), x)})
         + StatedPenaltyFrom(title, i + 1)

StatedPenalty(title) == StatedPenaltyFrom(title, 1)

HasText(title, text) == Contains(Lower(title), text)

\* the terms of S that are not multiples of a similarity
StatedFlatTerms(target, candidate) ==
    (IF /\ target.isrc # <<>> /\ candidate.isrc # <<>>
        /\ Lower(target.isrc) = Lower(candidate.isrc) THEN 40 ELSE 0)
    + (IF /\ \/ HasText(candidate.title, <<"f","e","a","t",".">>)
             \/ HasText(candidate.title, <<"f","e","a","t","u","r","i","n","g">>)
          /\ ~HasText(candidate.title, <<"i","n","s","t","r","u","m","e","n","t","a","l">>)
          /\ ~HasText(candidate.title, <<"r","e","m","i","x">>)
          /\ ~HasText(candidate.title, <<"a","c","a","p","e","l","l","a">>)
       THEN 15 ELSE 0)
    - (IF HasText(candidate.title, <<"i","n","s","t","r","u","m","e","n","t","a","l">>)
       THEN 25 ELSE 0)
    - StatedPenalty(candidate.title)

\* S as stated, for given similarities
StatedSum(target, candidate, title_score, artist_score, duration_score) ==
    Points(StatedFlatTerms(target, candidate))
    + 35 * title_score + 25 * artist_score + 10 * duration_score
    + (IF target.album # <<>> /\ candidate.album # <<>>
       THEN 5 * calculate_string_similarity(Lower(target.album),
                                            Lower(candidate.album))
       ELSE 0)
    + (IF 10 * title_score >= 9 * SimOne /\ 10 * artist_score >= 9 * SimOne
       THEN Points(20) ELSE 0)

StatedScore(target, candidate) ==
    StatedSum(target, candidate,
              calculate_title_similarity(target.title, candidate.title),
              calculate_artist_similarity(target.artist, candidate.artists),
              calculate_duration_similarity(get_duration_seconds(target),
                                            candidate.duration))

AddedIndicators ==
    {[text |-> <<"l","i","v","e">>, suffix |-> <<" ","(","L","i","v","e",")">>],
     [text |-> <<"r","e","m","i","x">>, suffix |-> <<" ","(","R","e","m","i","x",")">>],
     [text |-> <<"c","o","v","e","r">>, suffix |-> <<" ","(","C","o","v","e","r",")">>],
     [text |-> <<"t","o","u","r">>, suffix |-> <<" ","(","T","o","u","r",")">>],
     [text |-> <<"m","u","s","i","c"," ","v","i","d","e","o">>,
      suffix |-> <<" ","(","O","f","f","i","c","i","a","l"," ","M","u","s","i","c"," ","V","i","d","e","o",")">>]}


\* C15: for a fixed target, a candidate whose identifier does not match
\* scores no higher than the same candidate with the matching identifier;
\* a candidate scores no lower than the same candidate with a disqualifying
\* indicator, absent from the target, added to its title; and with
\* " (Official Music Video)" added to a title that scores above 0 the
\* candidate scores strictly lower.
ConfidenceMonotonic ==
    call.fn = "confidence" /\ ret # NoRet =>
        /\ call.target.isrc # <<>> =>
              calculate_confidence(call.target,
                  [call.candidate EXCEPT !.isrc = call.target.isrc])
                  >= ret.value
        /\ \A x \in AddedIndicators :
              ~HasText(call.target.title, x.text) =>
                  calculate_confidence(call.target,
                      [call.candidate EXCEPT !.title = @ \o x.suffix])
                      <= ret.value
        /\ ret.value > 0 /\ ~HasText(call.candidate.title, <<"m","u","s","i","c"," ","v","i","d","e","o">>) =>
              calculate_confidence(call.target,
                  [call.candidate EXCEPT
                      !.title = @ \o <<" ","(","O","f","f","i","c","i","a","l"," ","M","u","s","i","c"," ","V","i","d","e","o",")">>])
                  < ret.value

\* the step function of a difference d, in thousandths of a second
StatedStep(d) ==
    IF 10 * d <= 10 * Second THEN SimOne
    ELSE IF 10 * d <= 15 * Second THEN (SimOne * 6) \div 10
    ELSE IF 10 * d <= 20 * Second THEN (SimOne * 3) \div 10
    ELSE IF 10 * d <= 30 * Second THEN SimOne \div 10
    ELSE 0

\* C16: the duration similarity of two durations is 0 when either is zero
\* (a missing duration is carried as zero), and otherwise the step function
\* of their absolute difference d: 1.0 up to 1.0 s, 0.6 up to 1.5 s, 0.3 up
\* to 2.0 s, 0.1 up to 3.0 s, then 0.0; a larger difference never gives a
\* larger value.
DurationIsStepFunction ==
    call.fn = "duration" /\ ret # NoRet =>
        /\ call.target_duration = 0 \/ call.candidate_duration = 0
              => ret.value = 0
        /\ call.target_duration # 0 /\ call.candidate_duration # 0
              => ret.value = StatedStep(AbsDiff(call.target_duration,
                                                call.candidate_duration))
        /\ \A other \in DurationValues \ {0} :
              /\ call.target_duration # 0 /\ call.candidate_duration # 0
              /\ AbsDiff(call.target_duration, other)
                   >= AbsDiff(call.target_duration, call.candidate_duration)
              => calculate_duration_similarity(call.target_duration, other)
                   <= ret.value

\* a difference of exactly 1.5 seconds, scored 0.6
DurationAtStepBound ==
    /\ call.fn = "duration" /\ ret # NoRet
    /\ call.target_duration # 0 /\ call.candidate_duration # 0
    /\ 2 * AbsDiff(call.target_duration, call.candidate_duration) = 3 * Second
    /\ 10 * ret.value = 6 * SimOne

\* C17, as stated: duration_similarity(180, 184) is 0.1 and
\* duration_similarity(180, 200) is 0.0.
FourSecondsApartScoresTenth ==
    call.fn = "duration" /\ ret # NoRet /\ call.target_duration = 180 * Second =>
        /\ call.candidate_duration = 184 * Second => 10 * ret.value = SimOne
        /\ call.candidate_duration = 200 * Second => ret.value = 0

\* C17, amended: duration_similarity(180, 184) is 0.0, as is
\* duration_similarity(180, 200); 0.1 is the value of differences above 2
\* and up to 3 seconds, duration_similarity(180, 183) included.
FourSecondsApartScoresZero ==
    call.fn = "duration" /\ ret # NoRet /\ call.target_duration = 180 * Second =>
        /\ call.candidate_duration = 184 * Second => ret.value = 0
        /\ call.candidate_duration = 200 * Second => ret.value = 0
        /\ call.candidate_duration = 183 * Second => 10 * ret.value = SimOne

\* duration_similarity(180, 184) has returned
FourSecondsApartReturned ==
    /\ call.fn = "duration" /\ ret # NoRet
    /\ call.target_duration = 180 * Second
    /\ call.candidate_duration = 184 * Second
    /\ ret.value = 0

\* the similarity of the target with one credited artist: 1.0 for equal
\* cleaned names, 0.8 when one contains the other, else the Jaccard
\* similarity of their words
PerArtist(target_clean, artist_clean) ==
    IF target_clean = artist_clean THEN SimOne
    ELSE IF \/ Contains(artist_clean, target_clean)
            \/ Contains(target_clean, artist_clean)
         THEN (SimOne * 8) \div 10
    ELSE IF WordSet(target_clean) # {} /\ WordSet(artist_clean) # {}
         THEN Jaccard(WordSet(target_clean), WordSet(artist_clean))
    ELSE 0

\* the greatest of the per-artist similarities
RECURSIVE MaxPerArtist(_, _)
MaxPerArtist(target_clean, candidate_artists) ==
    IF candidate_artists = <<>> THEN 0
    ELSE Max(PerArtist(target_clean, Lower(clean_artist(Head(candidate_artists)))),
             MaxPerArtist(target_clean, Tail(candidate_artists)))

Reversed(s) == [i \in 1..Len(s) |-> s[Len(s) + 1 - i]]

\* C18: the artist similarity is the greatest per-artist similarity over the
\* candidate's artists, and it is the same for the artists listed in the
\* opposite order.
ArtistSimilarityIsMaximum ==
    call.fn = "artist" /\ ret # NoRet /\ call.target_artist # <<>> =>
        /\ ret.value = MaxPerArtist(Lower(clean_artist(call.target_artist)),
                                    call.candidate_artists)
        /\ ret.value = calculate_artist_similarity(call.target_artist,
                                                   Reversed(call.candidate_artists))

\* C19: the title similarity of two titles is the same in both orders, and
\* a title that is not empty has similarity 1.0 with itself.
TitleSimilaritySymmetric ==
    call.fn = "title" /\ ret # NoRet =>
        /\ ret.value = calculate_title_similarity(call.candidate_title,
                                                  call.target_title)
        /\ call.target_title = call.candidate_title /\ call.target_title # <<>>
              => ret.value = SimOne

\* two different titles, one containing the other: Jaccard 0.5 and the
\* bonus of 0.2
TitleBonusPath ==
    /\ call.fn = "title" /\ ret # NoRet
    /\ call.target_title = SongTwo
    /\ call.candidate_title = Song
    /\ 10 * ret.value = 7 * SimOne

\* whether an argument of a call of a similarity function is empty or
\* missing: an empty string, an empty list of artists, a duration of zero
EmptyArgument(a_call) ==
    CASE a_call.fn = "title" ->
           a_call.target_title = <<>> \/ a_call.candidate_title = <<>>
      [] a_call.fn = "artist" ->
           a_call.target_artist = <<>> \/ a_call.candidate_artists = <<>>
      [] a_call.fn = "duration" ->
           a_call.target_duration = 0 \/ a_call.candidate_duration = 0
      [] a_call.fn = "string" -> a_call.str1 = <<>> \/ a_call.str2 = <<>>
      [] OTHER -> FALSE

\* C20: the title, artist, duration and string similarity each return a
\* value between 0 and 1, and 0 when an argument is empty or missing.
SimilaritiesBounded ==
    call.fn \in {"title", "artist", "duration", "string"} /\ ret # NoRet =>
        /\ 0 <= ret.value /\ ret.value <= SimOne
        /\ EmptyArgument(call) => ret.value = 0

\* the string similarity of an empty string and a name has returned 0
EmptyStringScoresZero ==
    /\ call.fn = "string" /\ ret # NoRet
    /\ call.str1 = <<>> /\ call.str2 = Album
    /\ ret.value = 0

\* C21: a resolver constructed without the credentials of the identifier
\* service (has_spotify is FALSE) serves no resolution: it makes no attempt
\* and returns nothing.
ConfigurationErrorIsFatal ==
    ~has_spotify /\ pc # "direct" => attempts = <<>> /\ outcome = NoRet

\* C22: once the event is set, download_audio starts no launch of the
\* executable, no search and no download.
NothingStartedAfterCancel ==
    frame.pc # "none" => trace.late = {}

\* C23: download_audio returns only with a file of more than 1024 bytes at
\* output_wav.
ReturnsOnlyWithFile ==
    frame.pc = "returned" => output_file

\* how far a call of _run_with_exe has come
ExeRank(f) ==
    IF f.pc = "run_with_exe" THEN 0
    ELSE IF f.pc = "after_exe" THEN 10000
    ELSE ((f.prefix * 4 + f.attempt) * 3
            + (CASE f.pc = "attempt" -> 0 [] f.pc = "wait" -> 1 [] OTHER -> 2)) * 200
         + f.elapsed

\* C29: every step of _run_with_exe takes it further towards its end; the
\* executable is launched at most 3 times for a prefix and at most 6 times in
\* all, the second prefix only after the first; no launch is waited for
\* longer than 180 seconds and the second in which that is noticed; and
\* _run_with_exe ends by returning a pair of a boolean and a message.
ExePathBounded ==
    [][frame.pc \in {"run_with_exe", "attempt", "wait", "killed"} =>
         /\ frame' = frame \/ ExeRank(frame') > ExeRank(frame)
         /\ trace'.launches[1] <= 3
         /\ trace'.launches[2] <= 3
         /\ trace'.launches[1] + trace'.launches[2] <= 6
         /\ trace'.launches[2] > 0 => frame'.prefix = 2 \/ frame'.pc = "after_exe"
         /\ frame'.elapsed <= 180 + 1
         /\ frame'.pc = "after_exe" =>
               /\ frame'.ok \in BOOLEAN
               /\ frame'.msg \in {"", "yt-dlp executable not found",
                                  "cancelled by user",
                                  "No supported JavaScript runtime",
                                  "tried prefixes"}]_vars

\* _run_with_exe has returned failure after six launches, the last of which
\* was killed at its timeout
SixLaunchesThenFailure ==
    /\ frame.pc = "after_exe"
    /\ ~frame.ok
    /\ trace.launches = <<3, 3>>
    /\ frame.elapsed = 181

\* the futures of the failed tracks the loop of main has taken
HandledFailures ==
    {i \in DOMAIN futures : futures[i].state = "handled" /\ ~futures[i].ok}

\* C24: a failing track does not end the batch and is counted once: the
\* step in which a track fails changes no other future and leaves main in
\* its loop; failures has one entry for each failed track the loop has
\* taken, under its track number when process_track returned the failure,
\* and no entry for any other track; and the summary is made when every
\* future was taken, with successes = tracks - entries of failures.
FailedTrackCountedOnce ==
    [][/\ \A i \in DOMAIN futures :
            futures'[i].state = "finished" /\ futures[i].state # "finished"
              => /\ ret' = ret
                 /\ \A j \in DOMAIN futures \ {i} : futures'[j] = futures[j]
       /\ Len(failures') = Cardinality(HandledFailures')
       /\ \A i \in DOMAIN futures :
            Cardinality({k \in DOMAIN failures' : failures'[k].tn = i})
              = IF i \in HandledFailures' /\ futures'[i].info # "raised"
                THEN 1 ELSE 0
       /\ ret' # NoRet /\ ~ret'.interrupted =>
            /\ \A i \in DOMAIN futures : futures'[i].state = "handled"
            /\ ret'.successful_tracks = Len(call.tracks) - Cardinality(HandledFailures')
            /\ ret'.successful_tracks =
                 Cardinality({i \in DOMAIN futures : futures'[i].ok})]_vars

\* the summary of a batch of two tracks: one was skipped, the other raised
\* outside the handler of process_track
OneSkippedOneRaised ==
    /\ ret # NoRet
    /\ ~ret.interrupted
    /\ ret.successful_tracks = 1
    /\ Len(failures) = 1
    /\ \E i, j \in DOMAIN futures :
          futures[i].info = "skipped" /\ futures[j].info = "raised"

\* C30: a track is reported as skipped only for a file of that track.
SkippedOnlyForOwnFile ==
    \A i \in DOMAIN futures :
        futures[i].info = "skipped" =>
            futures[i].existing = outfilename(call.tracks[i])

\* C25: concurrent resolutions do not interfere: a step of one call changes
\* neither the services nor the state and the resolver objects of another
\* call, and under every interleaving and worker count a call returns what
\* smart_resolve_track returns for its track alone.
ResolutionsDoNotInterfere ==
    [][/\ UNCHANGED <<has_spotify, ytmusic, spotify_index, yt_isrc_index,
                      yt_query_index, call>>
       /\ \A w \in DOMAIN workers :
            /\ workers'[w] # workers[w] =>
                  /\ \A v \in DOMAIN workers \ {w} : workers'[v] = workers[v]
                  /\ \A id \in DOMAIN heap : heap'[id] = heap[id]
                  /\ \A id \in DOMAIN heap' \ DOMAIN heap : id[1] = w
            /\ workers'[w].pc = "done" =>
                  workers'[w].outcome =
                     smart_resolve_track(call.tracks[w], has_spotify, ytmusic, Services)]_vars

\* two calls ran at the same time with their own resolver objects, and one
\* returned a track resolved by the identifier path while the other
\* returned None
ConcurrentCallsDiffer ==
    /\ workers # <<>>
    /\ call.workers = 2
    /\ \A w \in DOMAIN workers : workers[w].pc = "done"
    /\ {id[1] : id \in DOMAIN heap} = {1, 2}
    /\ \E w, v \in DOMAIN workers :
          /\ workers[w].outcome = None
          /\ workers[v].outcome # None
          /\ Instance(v, "metadata") \notin DOMAIN heap

\* C26: every result of the identifier search that is a song with a videoId
\* and a title is in the candidate list, as a candidate of source
\* isrc_search.
IsrcResultsBecomeCandidates ==
    /\ call.fn = "collect"
    /\ ret # NoRet
    /\ call.target.isrc # <<>>
    /\ ~call.isrc_answer.raises
    => \A i \in 1..Len(call.isrc_answer.results) :
          /\ call.isrc_answer.results[i].resultType = "song"
          /\ call.isrc_answer.results[i].videoId # <<>>
          /\ call.isrc_answer.results[i].title # <<>>
          => \E k \in 1..Len(ret.candidates) :
                ret.candidates[k] =
                    CandidateOf(call.isrc_answer.results[i], "isrc_search")

\* the credited artists whose cleaned name is not empty, in their order
NamedArtists(candidate_artists) ==
    SelectSeq(candidate_artists, LAMBDA a : clean_artist(a) # <<>>)

\* C28: a name that is empty after cleaning matches nothing: a target that
\* cleans to the empty string has similarity 0, and a credited artist that
\* cleans to the empty string changes nothing in the similarity.
EmptyCleanedNameMatchesNothing ==
    call.fn = "artist" /\ ret # NoRet =>
        /\ clean_artist(call.target_artist) = <<>> => ret.value = 0
        /\ ret.value = calculate_artist_similarity(
                           call.target_artist, NamedArtists(call.candidate_artists))

\* C27: every result search_track returns has a video id and a title, on
\* the path of the identifier search and on the path of the query search.
ReturnedResultsHaveIdAndTitle ==
    call.fn = "search_track" /\ ret # NoRet =>
        \A i \in 1..Len(ret.results) :
            /\ ret.results[i].video_id # <<>>
            /\ ret.results[i].title # <<>>

====
